---------------------------- MODULE Spec2Model ----------------------------
(***************************************************************************)
(* Question generation pipeline of the medical exam preparation bot:       *)
(*   core/agents/question_generator.py  (LangGraph workflow, controller,   *)
(*                                       batch scheduler)                  *)
(*   core/agents/nodes.py               (workflow nodes, uniqueness check, *)
(*                                       question cache, chunk quality)    *)
(*   storage/json_store.py              (JSON collections)                 *)
(*   pages/3_Generate_Questions.py      (generate button handler)          *)
(***************************************************************************)
EXTENDS Integers, Sequences, FiniteSets, TLC

(***************************************************************************)
(* Bounds of the model.                                                    *)
(***************************************************************************)
\* largest `count` / num_questions of one request
MaxCount == 3
\* largest max_concurrent / batch_size of one request
MaxConcurrent == 2
\* provider faults injected into one scheduler run
MaxFaults == 1
\* clock ticks of one run (each TickSeconds long)
MaxTicks == 1
\* largest MAX_REGENERATION_ATTEMPTS explored besides the default
MaxAttemptsSetting == 3
\* largest generation_attempt fed to the decision function on its own
MaxAttemptInput == 4
\* most vectors in the index of a store searched on its own
MaxVectors == 3
\* largest k of a search
MaxK == 2
\* searches made one after the other on one store
MaxSearches == 2
\* calls of _update_chunk_quality_scores made one after the other
MaxQualityRuns == 12
\* calls of JSONStorage.append made on a collection taken on its own
MaxAppends == 4
MaxResults == 4
\* requests made on the page one after the other, each for one chapter
MaxRequests == 2
\* calls of add_embeddings and load made on a store taken on its own
MaxStoreCalls == 3

(***************************************************************************)
(* Program constants.                                                      *)
(***************************************************************************)
\* config.py: Settings defaults
VALIDATION_CONFIDENCE_THRESHOLD == 80
MAX_REGENERATION_ATTEMPTS == 2
\* nodes.py: _get_cached_questions keeps a snapshot for 30 seconds
CacheTtlSeconds == 30
\* nodes.py: _is_question_unique(threshold=0.55), as a percentage
SimilarityThresholdPct == 55
\* nodes.py: term_overlap > 0.7, as a percentage
TermOverlapThresholdPct == 70
\* nodes.py: _extract_medical_terms keeps words with len(w) > 4
MinTermLen == 4
\* nodes.py: _update_chunk_quality_scores: chunks[:3], scores[-10:]
QualityChunks == 3
QualityWindow == 10
\* langgraph: graph.ainvoke(initial_state) runs under the default
\* recursion_limit of 25 super-steps and raises GraphRecursionError beyond
RecursionLimit == 25
\* seconds of one clock tick of the model: one time-to-live
TickSeconds == CacheTtlSeconds
UsageWindow == 20

\* Python's None; a value that is present is the one-element sequence of it
None == <<>>
Some(v) == <<v>>
Unlimited == -1

Min(a, b) == IF a < b THEN a ELSE b

(***************************************************************************)
(* Texts.  A text is a sequence of characters.                             *)
(***************************************************************************)
UpperToLower == ("A" :> "a") @@ ("N" :> "n")

\* str.isupper() of one character
IsUpperChar(c) == c \in DOMAIN UpperToLower

\* a cased character that is lower case
IsLowerChar(c) == c \in {UpperToLower[u] : u \in DOMAIN UpperToLower}
                       \cup {"b", "c", "d", "e", "o", "r", "t", "v"}

\* str.lower()
Lower(s) == [i \in 1..Len(s) |->
               IF IsUpperChar(s[i]) THEN UpperToLower[s[i]] ELSE s[i]]

\* str.isupper() of a word: a cased character, and no lower-case one
WordIsUpper(w) == /\ \E i \in 1..Len(w) : IsUpperChar(w[i])
                  /\ \A i \in 1..Len(w) : ~IsLowerChar(w[i])

\* str.split(): the maximal runs of non-blank characters, in order
RECURSIVE SplitFrom(_, _, _)
SplitFrom(s, i, word) ==
  IF i > Len(s)
  THEN IF word = <<>> THEN <<>> ELSE <<word>>
  ELSE IF s[i] = " "
       THEN (IF word = <<>> THEN <<>> ELSE <<word>>) \o SplitFrom(s, i + 1, <<>>)
       ELSE SplitFrom(s, i + 1, Append(word, s[i]))

Split(s) == SplitFrom(s, 1, <<>>)

\* _extract_medical_terms, as the set the callers build from it
ExtractMedicalTerms(text) ==
  LET words == Split(text)
  IN { Lower(words[n]) : n \in { m \in 1..Len(words) :
          /\ Len(words[m]) > MinTermLen
          /\ (IsUpperChar(words[m][1]) \/ WordIsUpper(words[m])) } }

(***************************************************************************)
(* difflib.SequenceMatcher(None, a, b): offsets are Python's (0-based,     *)
(* half-open ranges); the texts are shorter than the autojunk limit.       *)
(***************************************************************************)
RECURSIVE MatchLen(_, _, _, _, _, _)
MatchLen(a, b, i, j, ahi, bhi) ==
  IF i < ahi /\ j < bhi /\ a[i + 1] = b[j + 1]
  THEN 1 + MatchLen(a, b, i + 1, j + 1, ahi, bhi)
  ELSE 0

\* find_longest_match: the longest block; of those the earliest in a,
\* then the earliest in b
FindLongestMatch(a, b, alo, ahi, blo, bhi) ==
  LET cands == { <<i, j, MatchLen(a, b, i, j, ahi, bhi)>> :
                    i \in alo..(ahi - 1), j \in blo..(bhi - 1) }
      best  == { c \in cands : c[3] > 0 /\ \A d \in cands : d[3] <= c[3] }
      first == { c \in best : \A d \in best :
                    c[1] < d[1] \/ (c[1] = d[1] /\ c[2] <= d[2]) }
  IN IF best = {} THEN <<alo, blo, 0>> ELSE CHOOSE c \in first : TRUE

\* get_matching_blocks: total size of the matching blocks
RECURSIVE MatchedSize(_, _, _, _, _, _)
MatchedSize(a, b, alo, ahi, blo, bhi) ==
  LET m == FindLongestMatch(a, b, alo, ahi, blo, bhi)
      i == m[1]
      j == m[2]
      k == m[3]
  IN IF k = 0 THEN 0
     ELSE k + (IF alo < i /\ blo < j
               THEN MatchedSize(a, b, alo, i, blo, j) ELSE 0)
            + (IF i + k < ahi /\ j + k < bhi
               THEN MatchedSize(a, b, i + k, ahi, j + k, bhi) ELSE 0)

\* _calculate_question_similarity: ratio() = 2.0 * matches / length, as the
\* pair <<2 * matches, length>>; two empty texts have ratio 1.0
CalculateQuestionSimilarity(q1, q2) ==
  LET a == Lower(q1)
      b == Lower(q2)
      T == Len(a) + Len(b)
  IN IF T = 0 THEN <<1, 1>>
     ELSE <<2 * MatchedSize(a, b, 0, Len(a), 0, Len(b)), T>>


\* a variant of the comparison that also rejects at the threshold
TermOverlapReaches(q1, q2, pct) ==
  LET n == ExtractMedicalTerms(q1)
      e == ExtractMedicalTerms(q2)
  IN /\ n # {}
     /\ e # {}
     /\ Cardinality(n \cap e) * 100 >= pct * Cardinality(n \cup e)

\* new_terms and existing_terms and term_overlap > 0.7
TermOverlapExceeds(q1, q2, pct) ==
  LET n == ExtractMedicalTerms(q1)
      e == ExtractMedicalTerms(q2)
  IN /\ n # {}
     /\ e # {}
     /\ Cardinality(n \cap e) * 100 > pct * Cardinality(n \cup e)

(***************************************************************************)
(* Question texts the generation model may return.                         *)
(***************************************************************************)
TextAortaA == <<"A", "o", "r", "t", "a", " ", "a">>
TextAortaB == <<"A", "o", "r", "t", "a", " ", "b">>
TextNerve  == <<"N", "e", "r", "v", "e", " ", "c", "d">>

QuestionTexts == {TextAortaA, TextAortaB, TextNerve}

\* texts for the uniqueness check taken on its own: two texts without
\* terms that share 11 of their 20 characters; seven terms, and ten terms
\* that hold the seven in another order; two terms in either order
UniqueTexts ==
  [plainB |->
     <<"a", "o", "r", "t", "a", " ", "n", "e", "r", "v", "e", "b", "b",
       "b", "b", "b", "b", "b", "b", "b">>,
   plainC |->
     <<"a", "o", "r", "t", "a", " ", "n", "e", "r", "v", "e", "c", "c",
       "c", "c", "c", "c", "c", "c", "c">>,
   seven |->
     <<"A", "o", "r", "t", "a", " ", "N", "e", "r", "v", "e", " ", "A",
       "b", "b", "o", "t", " ", "A", "c", "t", "e", "d", " ", "A", "d",
       "d", "e", "r", " ", "A", "r", "c", "e", "d", " ", "A", "v", "e",
       "r", "t">>,
   ten |->
     <<"N", "o", "t", "e", "d", " ", "A", "v", "e", "r", "t", " ", "A",
       "r", "c", "e", "d", " ", "N", "a", "c", "r", "e", " ", "A", "d",
       "d", "e", "r", " ", "A", "c", "t", "e", "d", " ", "A", "b", "b",
       "o", "t", " ", "N", "a", "v", "e", "d", " ", "N", "e", "r", "v",
       "e", " ", "A", "o", "r", "t", "a">>,
   swapA |->
     <<"A", "o", "r", "t", "a", " ", "N", "e", "r", "v", "e">>,
   swapB |->
     <<"N", "e", "r", "v", "e", " ", "A", "o", "r", "t", "a">>]

\* the candidates of the uniqueness check taken on its own, and the texts
\* of the questions they are compared with
UniqueCandidates ==
  {UniqueTexts.plainB, UniqueTexts.ten, UniqueTexts.swapA, TextAortaA}

UniqueExisting ==
  {UniqueTexts.plainC, UniqueTexts.seven, UniqueTexts.swapB, TextAortaB,
   TextNerve}

\* _calculate_question_similarity of the texts above, worked out once
SimilarityOfTexts ==
  { <<p, CalculateQuestionSimilarity(p[1], p[2])>> :
      p \in (QuestionTexts \X QuestionTexts)
               \cup (UniqueCandidates \X UniqueExisting) }

\* _calculate_question_similarity(q1, q2)
QuestionSimilarity(q1, q2) ==
  IF \E t \in SimilarityOfTexts : t[1] = <<q1, q2>>
  THEN (CHOOSE t \in SimilarityOfTexts : t[1] = <<q1, q2>>)[2]
  ELSE CalculateQuestionSimilarity(q1, q2)

\* a variant of the comparison that also rejects at the threshold
SimilarityReaches(q1, q2, pct) ==
  LET r == QuestionSimilarity(q1, q2)
  IN r[1] * 100 >= pct * r[2]

\* text_similarity > threshold
SimilarityExceeds(q1, q2, pct) ==
  LET r == QuestionSimilarity(q1, q2)
  IN r[1] * 100 > pct * r[2]


(***************************************************************************)
(* State.                                                                  *)
(***************************************************************************)
VARIABLES
  settings,        \* config.settings: the two question-generation settings
  env,             \* what the providers may answer during this run
  req,             \* the request: chapter, images, include_images
  faultsLeft,      \* provider faults the run may still see (Unlimited: any)
  now,             \* time.time(), in seconds since the run began
  questions,       \* the 'questions' collection (questions.json)
  chunk_quality,   \* the 'chunk_quality' collection (chunk_quality.json)
  question_cache,  \* QuestionGeneratorNodes._question_cache
  cache_timestamp, \* QuestionGeneratorNodes._cache_timestamp
  st,              \* the QuestionState of every pipeline instance (task)
  agent,           \* one activation of generate_batch_questions
  page,            \* the generate button handler
  history,         \* what the run did: batch sizes, questions returned,
                   \* chunks and confidence of every finalized question
  decideIn,        \* an input of the decision function taken on its own
  decideOut,       \* the decision function's answer to decideIn
  vstore,          \* LocalVectorStore: the index's vectors and the metadata
  searchIn,        \* the arguments of the searches made on the store
  searchOut,       \* what the searches made so far returned, in order
  qualityRuns,     \* calls of _update_chunk_quality_scores taken on its own
  assigned,        \* the ids JSONStorage.append assigned, in order
  selectIn,        \* the search results and random choices of a selection
  selectOut,       \* the chunks the selection made of selectIn
  uniqueOut,       \* the last uniqueness check made on its own: its
                   \* arguments, the list it read and its answer
  vfiles           \* the persisted pair faiss.index and metadata.pkl

vars == <<settings, env, req, faultsLeft, now, questions, chunk_quality,
          question_cache, cache_timestamp, st, agent, page, history,
          decideIn, decideOut, vstore, searchIn, searchOut, qualityRuns,
          assigned, selectIn, selectOut, uniqueOut, vfiles>>

Chapters == {1, 2}

\* more tasks than one handler run can create
MaxInstances == MaxCount + MaxConcurrent

Instances == 1..MaxInstances

(***************************************************************************)
(* storage/json_store.py                                                   *)
(***************************************************************************)
\* JSONStorage.filter(filename, chapter_id=c)
StorageFilter(data, c) == SelectSeq(data, LAMBDA item : item.chapter_id = c)

\* JSONStorage.append: item['id'] = len(data) + 1; data.append(item)
\* item['created_at'] = datetime.now()
StorageAppend(data, item) ==
  Append(data, ("id" :> Len(data) + 1) @@ ("created_at" :> now) @@ item)

(***************************************************************************)
(* core/agents/nodes.py: question cache and uniqueness check               *)
(***************************************************************************)
\* a variant of the test that still serves a snapshot of age 30 seconds
CacheHitAtTtl(c) ==
  /\ c \in DOMAIN question_cache
  /\ now - cache_timestamp[c] <= CacheTtlSeconds

\* _get_cached_questions: the snapshot is still served
CacheHit(c) ==
  /\ c \in DOMAIN question_cache
  /\ now - cache_timestamp[c] < CacheTtlSeconds

\* _get_cached_questions: the list returned
GetCachedQuestions(c) ==
  IF CacheHit(c) THEN question_cache[c] ELSE StorageFilter(questions, c)

\* _get_cached_questions: the cache it leaves behind
CacheAfterRead(c) ==
  IF CacheHit(c) THEN question_cache
  ELSE [x \in DOMAIN question_cache \cup {c} |->
          IF x = c THEN StorageFilter(questions, c) ELSE question_cache[x]]

TimestampAfterRead(c) ==
  IF CacheHit(c) THEN cache_timestamp
  ELSE [x \in DOMAIN cache_timestamp \cup {c} |->
          IF x = c THEN now ELSE cache_timestamp[x]]

\* _is_question_unique over the cached list: the first violation wins
RECURSIVE IsQuestionUniqueFrom(_, _, _)
IsQuestionUniqueFrom(new_question, existing, n) ==
  IF n > Len(existing)
  THEN [is_unique |-> TRUE, reason |-> "Question is unique"]
  ELSE IF SimilarityExceeds(new_question, existing[n].question,
                            SimilarityThresholdPct)
       THEN [is_unique |-> FALSE, reason |-> "Text similarity exceeds threshold"]
       ELSE IF TermOverlapExceeds(new_question, existing[n].question,
                                  TermOverlapThresholdPct)
            THEN [is_unique |-> FALSE, reason |-> "Medical term overlap too high"]
            ELSE IsQuestionUniqueFrom(new_question, existing, n + 1)

IsQuestionUnique(new_question, chapter_id) ==
  IsQuestionUniqueFrom(new_question, GetCachedQuestions(chapter_id), 1)

RECURSIVE SumSeq(_)
SumSeq(s) == IF s = <<>> THEN 0 ELSE Head(s) + SumSeq(Tail(s))

\* a variant of the record that averages before the list is cut
QualityRecordAfterStaleAverage(quality_data, chunk_id, score) ==
  LET old    == IF chunk_id \in DOMAIN quality_data
                THEN quality_data[chunk_id].scores ELSE <<>>
      all    == Append(old, score)
      scores == IF Len(all) > QualityWindow
                THEN SubSeq(all, Len(all) - QualityWindow + 1, Len(all))
                ELSE all
  IN [scores |-> scores, avg |-> <<SumSeq(all), Len(all)>>]

\* a variant of the record that keeps the oldest scores of the list
QualityRecordAfterKeepsOldest(quality_data, chunk_id, score) ==
  LET old    == IF chunk_id \in DOMAIN quality_data
                THEN quality_data[chunk_id].scores ELSE <<>>
      all    == Append(old, score)
      scores == IF Len(all) > QualityWindow
                THEN SubSeq(all, 1, QualityWindow)
                ELSE all
  IN [scores |-> scores, avg |-> <<SumSeq(scores), Len(scores)>>]

\* _update_chunk_quality_scores: one chunk's record after one more score;
\* avg = sum(scores) / len(scores) is kept as the pair <<sum, len>>
QualityRecordAfter(quality_data, chunk_id, score) ==
  LET old    == IF chunk_id \in DOMAIN quality_data
                THEN quality_data[chunk_id].scores ELSE <<>>
      all    == Append(old, score)
      scores == IF Len(all) > QualityWindow
                THEN SubSeq(all, Len(all) - QualityWindow + 1, Len(all))
                ELSE all
  IN [scores |-> scores, avg |-> <<SumSeq(scores), Len(scores)>>]

RECURSIVE UpdateChunkQualityFrom(_, _, _, _)
UpdateChunkQualityFrom(quality_data, chunks, n, score) ==
  IF n > Min(Len(chunks), QualityChunks) THEN quality_data
  ELSE UpdateChunkQualityFrom(
         [x \in DOMAIN quality_data \cup {chunks[n]} |->
            IF x = chunks[n] THEN QualityRecordAfter(quality_data, x, score)
            ELSE quality_data[x]],
         chunks, n + 1, score)

\* a variant that works on a copy of the map read before any other writer
UpdateChunkQualityScoresOnStaleCopy(quality_data, chunks, score) ==
  UpdateChunkQualityFrom([x \in {} |-> 0], chunks, 1, score)

\* _update_chunk_quality_scores(chunks, score)
UpdateChunkQualityScores(quality_data, chunks, score) ==
  UpdateChunkQualityFrom(quality_data, chunks, 1, score)

(***************************************************************************)
(* core/agents/question_generator.py: the controller                       *)
(***************************************************************************)
\* _should_regenerate(state)
\* validation.get('medical_accuracy', True)
MedicalAccuracyOf(v) ==
  IF "medical_accuracy" \in DOMAIN v THEN v.medical_accuracy ELSE TRUE

\* Variants of the decision rule, each off by one plausible slip; the
\* properties of the controller are checked to tell the rule from them.
\* confidence equal to the threshold is sent back
ShouldRegenerateStrictThreshold(validation, attempt) ==
  IF validation = None THEN "fail"
  ELSE LET v == validation[1]
       IN IF attempt >= settings.MAX_REGENERATION_ATTEMPTS
          THEN (IF ~v.is_valid THEN "fail" ELSE "continue")
          ELSE IF ~MedicalAccuracyOf(v) THEN "regenerate"
               ELSE IF \/ ~v.is_valid
                       \/ v.confidence_score
                            <= settings.VALIDATION_CONFIDENCE_THRESHOLD
                    THEN "regenerate"
                    ELSE "continue"

\* attempts used up always fails
ShouldRegenerateNoSalvage(validation, attempt) ==
  IF validation = None THEN "fail"
  ELSE LET v == validation[1]
       IN IF attempt >= settings.MAX_REGENERATION_ATTEMPTS
          THEN "fail"
          ELSE IF ~MedicalAccuracyOf(v) THEN "regenerate"
               ELSE IF \/ ~v.is_valid
                       \/ v.confidence_score
                            < settings.VALIDATION_CONFIDENCE_THRESHOLD
                    THEN "regenerate"
                    ELSE "continue"

\* attempts used up always lets the draft through
ShouldRegenerateAlwaysSalvage(validation, attempt) ==
  IF validation = None THEN "fail"
  ELSE LET v == validation[1]
       IN IF attempt >= settings.MAX_REGENERATION_ATTEMPTS
          THEN "continue"
          ELSE IF ~MedicalAccuracyOf(v) THEN "regenerate"
               ELSE IF \/ ~v.is_valid
                       \/ v.confidence_score
                            < settings.VALIDATION_CONFIDENCE_THRESHOLD
                    THEN "regenerate"
                    ELSE "continue"

\* the attempts are compared with > for >=
ShouldRegenerateOffByOne(validation, attempt) ==
  IF validation = None THEN "fail"
  ELSE LET v == validation[1]
       IN IF attempt > settings.MAX_REGENERATION_ATTEMPTS
          THEN (IF ~v.is_valid THEN "fail" ELSE "continue")
          ELSE IF ~MedicalAccuracyOf(v) THEN "regenerate"
               ELSE IF \/ ~v.is_valid
                       \/ v.confidence_score
                            < settings.VALIDATION_CONFIDENCE_THRESHOLD
                    THEN "regenerate"
                    ELSE "continue"

\* below the limit only the confidence is looked at
ShouldRegenerateIgnoresValidity(validation, attempt) ==
  IF validation = None THEN "fail"
  ELSE LET v == validation[1]
       IN IF attempt >= settings.MAX_REGENERATION_ATTEMPTS
          THEN (IF ~v.is_valid THEN "fail" ELSE "continue")
          ELSE IF ~MedicalAccuracyOf(v) THEN "regenerate"
               ELSE IF v.confidence_score
                         < settings.VALIDATION_CONFIDENCE_THRESHOLD
                    THEN "regenerate"
                    ELSE "continue"

\* below the limit the judge's verdict on accuracy is not looked at
ShouldRegenerateIgnoresAccuracy(validation, attempt) ==
  IF validation = None THEN "fail"
  ELSE LET v == validation[1]
       IN IF attempt >= settings.MAX_REGENERATION_ATTEMPTS
          THEN (IF ~v.is_valid THEN "fail" ELSE "continue")
          ELSE IF \/ ~v.is_valid
                  \/ v.confidence_score
                       < settings.VALIDATION_CONFIDENCE_THRESHOLD
               THEN "regenerate"
               ELSE "continue"

\* _should_regenerate(state), as the code has it
ShouldRegenerate(validation, attempt) ==
  IF validation = None THEN "fail"
  ELSE LET v == validation[1]
       IN IF attempt >= settings.MAX_REGENERATION_ATTEMPTS
          THEN (IF ~v.is_valid THEN "fail" ELSE "continue")
          ELSE IF ~MedicalAccuracyOf(v) THEN "regenerate"
               ELSE IF \/ ~v.is_valid
                       \/ v.confidence_score
                            < settings.VALIDATION_CONFIDENCE_THRESHOLD
                    THEN "regenerate"
                    ELSE "continue"

\* a variant of the edges that fetches the context again to regenerate
EdgeTargetRefetches(decision) ==
  CASE decision = "regenerate" -> "retrieve_context"
    [] decision = "continue"   -> "add_citations"
    [] decision = "fail"       -> "ended"

\* a variant of the edges that sends a failed run through add_citations
EdgeTargetFailFinalizes(decision) ==
  CASE decision = "regenerate" -> "generate_question"
    [] decision = "continue"   -> "add_citations"
    [] decision = "fail"       -> "add_citations"

\* the conditional edges of _build_graph
EdgeTarget(decision) ==
  CASE decision = "regenerate" -> "generate_question"
    [] decision = "continue"   -> "add_citations"
    [] decision = "fail"       -> "ended"

DecisionName(decision) ==
  CASE decision = "regenerate" -> "REGENERATE"
    [] decision = "continue"   -> "CONTINUE"
    [] decision = "fail"       -> "FAIL"

(***************************************************************************)
(* core/agents/question_generator.py and core/agents/nodes.py: one         *)
(* pipeline instance, a task running generate_single_question.  A node of  *)
(* the graph is one step: the shared cache, store and quality map are only *)
(* touched in the synchronous parts of a node.                             *)
(***************************************************************************)
cfgVars    == <<settings, env, req>>
storeVars  == <<questions, chunk_quality>>
cacheVars  == <<question_cache, cache_timestamp>>
schedVars  == <<agent, page, history>>
decideVars == <<decideIn, decideOut>>
searchVars == <<vstore, searchIn, searchOut>>
\* the variables of the parts that are also taken on their own
selectVars == <<selectIn, selectOut>>
unitVars   == <<decideVars, searchVars, qualityRuns, assigned, selectVars,
                 uniqueOut, vfiles>>

\* a task that does not exist (yet, or any more); beside the QuestionState
\* a task carries its place in the graph, its batch, the stages it went
\* through, and whether an embedding, generation or image call of it failed
NoTask(pc) ==
  [pc |-> pc, batch |-> 0, steps |-> 0, trace |-> <<>>, result |-> None,
   retrieved_chunks |-> <<>>, retrieved_images |-> <<>>,
   image_analysis |-> None, question_draft |-> None,
   validation_result |-> None, final_question |-> None,
   generation_attempt |-> 0, uniqueness_check |-> None, error |-> None,
   faulted |-> FALSE]

\* generate_single_question: initial_state, entering the graph
InitialState(batch) ==
  [NoTask("retrieve_context") EXCEPT !.batch = batch]

\* an exception leaves the graph: the state is lost, except_ catches it
Raised(s, stage) ==
  [NoTask("raised") EXCEPT !.batch = s.batch,
                           !.trace = Append(s.trace, stage),
                           !.faulted = s.faulted]

CanFault == faultsLeft # 0

AfterFault == IF faultsLeft = Unlimited THEN Unlimited ELSE faultsLeft - 1

NodePcs == {"retrieve_context", "generate_question", "validate_accuracy",
            "add_citations"}

\* a node of the graph may run: the super-step budget is not used up
MayStep(s, node) == s.pc = node /\ s.steps < RecursionLimit

\* retrieve_context: up to 2 of the chapter's images when they are asked for
SelectedImages ==
  IF req.include_images /\ req.images # <<>>
  THEN SubSeq(req.images, 1, Min(2, Len(req.images)))
  ELSE <<>>

\* retrieve_context
RetrieveContext(i) ==
  LET s == st[i]
  IN /\ MayStep(s, "retrieve_context")
     /\ question_cache' = CacheAfterRead(req.chapter_id)
     /\ cache_timestamp' = TimestampAfterRead(req.chapter_id)
     /\ \/ \* embed_text raises
           /\ CanFault
           /\ faultsLeft' = AfterFault
           /\ st' = [st EXCEPT ![i] =
                       [Raised(s, "RETRIEVE") EXCEPT !.faulted = TRUE]]
        \/ \E chunks \in env.selections :
             /\ st' = [st EXCEPT ![i] =
                         [s EXCEPT !.retrieved_chunks = chunks,
                                   !.retrieved_images = SelectedImages,
                                   !.steps = @ + 1,
                                   !.trace = Append(@, "RETRIEVE"),
                                   !.pc = "generate_question"]]
             /\ UNCHANGED faultsLeft
     /\ UNCHANGED <<cfgVars, now, storeVars, schedVars, unitVars>>

\* the labels a question's options are to carry
OptionKeys == {"A", "B", "C", "D"}

\* generate_question: with an explanation that is a dict, the line
\* question_draft['options'][question_draft['correct_answer']] raises KeyError
\* when the answer is no key of the options
FormattingRaises(shape) ==
  shape.explanation_is_dict /\ shape.correct_answer \notin shape.options

\* generate_question: question_draft after a successful call; the options
\* and the answer are the ones of the JSON object the model returned
DraftOf(s, text, shape) ==
  LET base == [question |-> text, options |-> shape.options,
               correct_answer |-> shape.correct_answer,
               chapter_id |-> req.chapter_id,
               difficulty |-> req.difficulty]
  IN IF s.retrieved_images # <<>>
     THEN ("image_path" :> s.retrieved_images[1]) @@ base
     ELSE base

\* generate_question: state['image_analysis'] once the image is analysed
ImageAnalysisOf(s) ==
  IF s.retrieved_images # <<>> THEN Some("analysis") ELSE s.image_analysis

\* generate_question
GenerateQuestion(i) ==
  LET s == st[i]
  IN /\ MayStep(s, "generate_question")
     /\ \/ \* analyze_image raises, outside the try block
           /\ s.retrieved_images # <<>>
           /\ CanFault
           /\ faultsLeft' = AfterFault
           /\ st' = [st EXCEPT ![i] =
                       [Raised(s, "GENERATE") EXCEPT !.faulted = TRUE]]
           /\ UNCHANGED cacheVars
        \/ \* the completion call or json.loads raises: except sets error
           /\ CanFault
           /\ faultsLeft' = AfterFault
           /\ st' = [st EXCEPT ![i] =
                       [s EXCEPT !.image_analysis = ImageAnalysisOf(s),
                                 !.error = Some("generation failed"),
                                 !.faulted = TRUE,
                                 !.steps = @ + 1,
                                 !.trace = Append(@, "GENERATE"),
                                 !.pc = "validate_accuracy"]]
           /\ UNCHANGED cacheVars
        \/ \* the draft is checked, formatted and stored on the state
           \E text \in env.texts, shape \in env.shapes :
             /\ ~FormattingRaises(shape)
             /\ question_cache' = CacheAfterRead(req.chapter_id)
             /\ cache_timestamp' = TimestampAfterRead(req.chapter_id)
             /\ st' = [st EXCEPT ![i] =
                         [s EXCEPT !.image_analysis = ImageAnalysisOf(s),
                                   !.uniqueness_check =
                                      Some(IsQuestionUnique(text, req.chapter_id)),
                                   !.question_draft =
                                      Some(DraftOf(s, text, shape)),
                                   !.generation_attempt = @ + 1,
                                   !.steps = @ + 1,
                                   !.trace = Append(@, "GENERATE"),
                                   !.pc = "validate_accuracy"]]
             /\ UNCHANGED faultsLeft
        \/ \* the draft is checked, then formatting it raises: except sets
           \* error, the draft and the attempt count stay as they were
           \E text \in env.texts, shape \in env.shapes :
             /\ \/ FormattingRaises(shape) /\ UNCHANGED faultsLeft
                \/ ~FormattingRaises(shape) /\ CanFault
                     /\ faultsLeft' = AfterFault
             /\ question_cache' = CacheAfterRead(req.chapter_id)
             /\ cache_timestamp' = TimestampAfterRead(req.chapter_id)
             /\ st' = [st EXCEPT ![i] =
                         [s EXCEPT !.image_analysis = ImageAnalysisOf(s),
                                   !.uniqueness_check =
                                      Some(IsQuestionUnique(text, req.chapter_id)),
                                   !.error = Some("generation failed"),
                                   !.steps = @ + 1,
                                   !.trace = Append(@, "GENERATE"),
                                   !.pc = "validate_accuracy"]]
     /\ UNCHANGED <<cfgVars, now, storeVars, schedVars, unitVars>>

\* validate_accuracy: the result when the uniqueness check failed
ShortCircuitResult(reason) ==
  [is_valid |-> FALSE, confidence_score |-> 0, issues |-> <<reason>>,
   medical_accuracy |-> TRUE]

\* a variant of the except block that lets the unjudged draft through
OptimisticResult ==
  [is_valid |-> TRUE, confidence_score |-> 100, issues |-> <<"judge failed">>,
   medical_accuracy |-> TRUE]

\* validate_accuracy: the result when the judge call raised
PessimisticResult ==
  [is_valid |-> FALSE, confidence_score |-> 0, issues |-> <<"judge failed">>,
   medical_accuracy |-> FALSE]

\* the node's result is stored and the conditional edge is followed
Routed(s, validation) ==
  LET decision == ShouldRegenerate(Some(validation), s.generation_attempt)
  IN [s EXCEPT !.validation_result = Some(validation),
               !.steps = @ + 1,
               !.trace = @ \o <<"VALIDATE", DecisionName(decision)>>,
               !.pc = EdgeTarget(decision)]

\* validate_accuracy, then _should_regenerate
ValidateAccuracy(i) ==
  LET s == st[i]
  IN /\ MayStep(s, "validate_accuracy")
     /\ \/ \* state['uniqueness_check'] is None: .get raises AttributeError
           /\ s.uniqueness_check = None
           /\ st' = [st EXCEPT ![i] = Raised(s, "VALIDATE")]
           /\ UNCHANGED faultsLeft
        \/ \* the uniqueness check failed: the judge is not called
           /\ s.uniqueness_check # None
           /\ ~s.uniqueness_check[1].is_unique
           /\ st' = [st EXCEPT ![i] =
                       Routed(s, ShortCircuitResult(s.uniqueness_check[1].reason))]
           /\ UNCHANGED faultsLeft
        \/ \* get_validation_prompt(None, ...) raises AttributeError
           /\ s.uniqueness_check # None
           /\ s.uniqueness_check[1].is_unique
           /\ s.question_draft = None
           /\ st' = [st EXCEPT ![i] = Raised(s, "VALIDATE")]
           /\ UNCHANGED faultsLeft
        \/ \* the judge answers
           /\ s.uniqueness_check # None
           /\ s.uniqueness_check[1].is_unique
           /\ s.question_draft # None
           /\ \E answer \in env.judge :
                st' = [st EXCEPT ![i] = Routed(s, answer)]
           /\ UNCHANGED faultsLeft
        \/ \* the judge call raises: except stores the pessimistic result
           /\ s.uniqueness_check # None
           /\ s.uniqueness_check[1].is_unique
           /\ s.question_draft # None
           /\ CanFault
           /\ faultsLeft' = AfterFault
           /\ st' = [st EXCEPT ![i] = Routed(s, PessimisticResult)]
     /\ UNCHANGED <<cfgVars, now, storeVars, cacheVars, schedVars, unitVars>>

\* a variant that cites only the chunks whose quality record is written
FinalQuestionOfScoredChunks(s) ==
  ("source_chunks" :>
      SubSeq(s.retrieved_chunks, 1, Min(Len(s.retrieved_chunks), QualityChunks)))
    @@ ("confidence_score" :> s.validation_result[1].confidence_score)
    @@ s.question_draft[1]

\* add_citations: the question, which is the draft object itself; a
\* retrieved chunk is held as its metadata's chunk_index
FinalQuestionOf(s) ==
  ("source_chunks" :> s.retrieved_chunks)
    @@ ("confidence_score" :> s.validation_result[1].confidence_score)
    @@ s.question_draft[1]

\* add_citations
AddCitations(i) ==
  LET s == st[i]
  IN /\ MayStep(s, "add_citations")
     /\ chunk_quality' =
          UpdateChunkQualityScores(chunk_quality, s.retrieved_chunks,
                                   s.validation_result[1].confidence_score)
     /\ st' = [st EXCEPT ![i] =
                 [s EXCEPT !.question_draft = Some(FinalQuestionOf(s)),
                           !.final_question = Some(FinalQuestionOf(s)),
                           !.steps = @ + 1,
                           !.trace = Append(@, "FINALIZE"),
                           !.pc = "ended"]]
     /\ history' = [history EXCEPT
                      !.scored = Append(@,
                         [chapter |-> req.chapter_id,
                          chunks |-> s.retrieved_chunks,
                          score |-> s.validation_result[1].confidence_score])]
     /\ UNCHANGED <<cfgVars, faultsLeft, now, questions, cacheVars, agent, page,
                    unitVars>>

\* a variant of the graph run in which no GraphRecursionError is raised: out
\* of super-steps, the run stays where it is
RecursionErrorNotRaised(i) ==
  /\ st[i].pc \in NodePcs
  /\ st[i].steps >= RecursionLimit
  /\ UNCHANGED vars

\* graph.ainvoke: out of super-steps before END, GraphRecursionError
RecursionError(i) ==
  LET s == st[i]
  IN /\ s.pc \in NodePcs
     /\ s.steps >= RecursionLimit
     /\ st' = [st EXCEPT ![i] = Raised(s, "RECURSION_ERROR")]
     /\ UNCHANGED <<cfgVars, faultsLeft, now, storeVars, cacheVars, schedVars,
                    unitVars>>

\* a variant of the return that does not look at final_state['error']
ResultOfIgnoringError(s) ==
  IF s.pc = "raised" THEN None
  ELSE IF s.final_question = None THEN None
       ELSE s.final_question

\* generate_single_question: what the task returns
ResultOf(s) ==
  IF s.pc = "raised" THEN None
  ELSE IF s.error # None THEN None
       ELSE IF s.final_question = None THEN None
            ELSE s.final_question

\* generate_single_question returns; its state is discarded
ReturnResult(i) ==
  LET s == st[i]
  IN /\ s.pc \in {"ended", "raised"}
     /\ st' = [st EXCEPT ![i] =
                 [NoTask("returned") EXCEPT !.batch = s.batch,
                                            !.trace = s.trace,
                                            !.faulted = s.faulted,
                                            !.result = ResultOf(s)]]
     /\ history' = [history EXCEPT
                      !.succeeded = @ + (IF ResultOf(s) # None THEN 1 ELSE 0),
                      !.failed = @ + (IF ResultOf(s) = None THEN 1 ELSE 0),
                      !.produced = IF ResultOf(s) # None
                                   THEN @ \cup {ResultOf(s)[1]} ELSE @]
     /\ UNCHANGED <<cfgVars, faultsLeft, now, storeVars, cacheVars, agent, page,
                    unitVars>>

\* time passes
Tick ==
  /\ now < MaxTicks * TickSeconds
  /\ now' = now + TickSeconds
  /\ UNCHANGED <<cfgVars, faultsLeft, storeVars, cacheVars, st, schedVars,
                 unitVars>>

(***************************************************************************)
(* core/agents/question_generator.py: generate_batch_questions             *)
(***************************************************************************)
\* the tasks of the batch being run
BatchTasks == (agent.first)..(agent.first + agent.batch_size - 1)

Terminal(i) == st[i].pc \in {"returned", "collected"}

InFlight(i) == st[i].pc \in NodePcs \cup {"ended", "raised"}

\* a variant of the loop that does not await the batch it started
BatchMayStartWithoutAwait ==
  agent.pc \in {"loop", "gather"} /\ agent.i < agent.count

\* the for loop may begin its next iteration
BatchMayStart == agent.pc = "loop" /\ agent.i < agent.count

\* batch_size = min(max_concurrent, count - i)
BatchSize == Min(agent.max_concurrent, agent.count - agent.i)

\* one iteration of the loop, up to the await: the tasks are created
StartBatch ==
  /\ BatchMayStart
  /\ history.launched + BatchSize <= MaxInstances
  /\ LET first == history.launched + 1
         last  == history.launched + BatchSize
     IN /\ st' = [i \in Instances |->
                    IF i \in first..last
                    THEN InitialState(Len(history.batches) + 1)
                    ELSE st[i]]
        /\ agent' = [agent EXCEPT !.pc = "gather",
                                  !.first = first,
                                  !.batch_size = BatchSize]
        /\ history' = [history EXCEPT !.launched = last,
                                      !.batches = Append(@, BatchSize)]
  /\ UNCHANGED <<cfgVars, faultsLeft, now, storeVars, cacheVars, page,
                 unitVars>>

\* a variant of gather without return_exceptions: the first failed task ends
\* the wait
GatherReadyOnFirstFailure ==
  \/ \A i \in BatchTasks : st[i].pc = "returned"
  \/ \E i \in BatchTasks : st[i].pc = "returned" /\ st[i].result = None

\* asyncio.gather(*tasks, return_exceptions=True) has every result
GatherReady == \A i \in BatchTasks : st[i].pc = "returned"

\* valid_questions: the results that are dicts, in task order
RECURSIVE ValidQuestions(_, _)
ValidQuestions(first, last) ==
  IF first > last THEN <<>>
  ELSE (IF st[first].result # None THEN st[first].result ELSE <<>>)
         \o ValidQuestions(first + 1, last)

\* the rest of the iteration, after the await
GatherBatch ==
  /\ agent.pc = "gather"
  /\ GatherReady
  /\ agent' = [agent EXCEPT
                 !.pc = "loop",
                 !.i = @ + agent.max_concurrent,
                 !.questions = @ \o ValidQuestions(agent.first,
                                      agent.first + agent.batch_size - 1)]
  /\ st' = [i \in Instances |->
              IF i \in BatchTasks
              THEN [NoTask("collected") EXCEPT !.batch = st[i].batch]
              ELSE st[i]]
  /\ UNCHANGED <<cfgVars, faultsLeft, now, storeVars, cacheVars, page, history,
                 unitVars>>

\* return questions
AgentReturn ==
  /\ agent.pc = "loop"
  /\ agent.i >= agent.count
  /\ agent' = [agent EXCEPT !.pc = "returned"]
  /\ UNCHANGED <<cfgVars, faultsLeft, now, storeVars, cacheVars, st, page,
                 history, unitVars>>

(***************************************************************************)
(* pages/3_Generate_Questions.py: the generate button handler              *)
(***************************************************************************)
\* agent.generate_batch_questions(count=..., max_concurrent=...) is entered
CallAgent(count, max_concurrent) ==
  [pc |-> "loop", count |-> count, max_concurrent |-> max_concurrent,
   i |-> 0, first |-> 1, batch_size |-> 0, questions |-> <<>>]

IdleAgent == [CallAgent(0, 1) EXCEPT !.pc = "idle"]

\* current_batch_size = min(batch_size, num_questions - generated_count)
CurrentBatchSize ==
  Min(page.batch_size, page.num_questions - page.generated_count)

\* one iteration of the handler's loop, up to asyncio.run
PageStartBatch ==
  /\ page.pc = "loop"
  /\ page.batch_num < page.total_batches
  /\ page' = [page EXCEPT !.pc = "await",
                          !.current_batch_size = CurrentBatchSize]
  /\ agent' = CallAgent(CurrentBatchSize, CurrentBatchSize)
  /\ UNCHANGED <<cfgVars, faultsLeft, now, storeVars, cacheVars, st, history,
                 unitVars>>

\* for result in batch_results: a truthy result is appended to the store and
\* counted as generated, any other is counted as failed
RECURSIVE ProcessResults(_, _, _)
ProcessResults(results, n, acc) ==
  IF n > Len(results) THEN acc
  ELSE ProcessResults(results, n + 1,
         IF DOMAIN results[n] # {}
         THEN [acc EXCEPT !.data = StorageAppend(@, results[n]),
                          !.generated = @ + 1]
         ELSE [acc EXCEPT !.failed = @ + 1])

\* the rest of the iteration, after asyncio.run returned batch_results
PageProcessResults ==
  /\ page.pc = "await"
  /\ agent.pc = "returned"
  /\ LET acc == ProcessResults(agent.questions, 1,
                  [data |-> questions, generated |-> page.generated_count,
                   failed |-> page.failed_count])
     IN /\ questions' = acc.data
        /\ page' = [page EXCEPT !.pc = "loop",
                                !.batch_num = @ + 1,
                                !.generated_count = acc.generated,
                                !.failed_count = acc.failed]
  /\ agent' = IdleAgent
  /\ UNCHANGED <<cfgVars, faultsLeft, now, chunk_quality, cacheVars, st,
                 history, unitVars>>

\* the loop is over: the summary reports generated_count and failed_count
PageSummary ==
  /\ page.pc = "loop"
  /\ page.batch_num >= page.total_batches
  /\ page' = [page EXCEPT !.pc = "done"]
  /\ UNCHANGED <<cfgVars, faultsLeft, now, storeVars, cacheVars, st, agent,
                 history, unitVars>>

\* the button is pressed: total_batches = (n + b - 1) // b
PagePressed(num_questions, batch_size) ==
  [pc |-> "loop", num_questions |-> num_questions, batch_size |-> batch_size,
   total_batches |-> (num_questions + batch_size - 1) \div batch_size,
   batch_num |-> 0, generated_count |-> 0, failed_count |-> 0,
   current_batch_size |-> 0]

PageOff == [PagePressed(0, 1) EXCEPT !.pc = "off"]

(***************************************************************************)
(* storage/vector_store.py: LocalVectorStore.search.  The store is the     *)
(* index's vectors and the metadata list; the two may differ in length     *)
(* (cascade_delete_chapter filters the metadata and leaves the index).     *)
(***************************************************************************)
\* faiss pads a result row that the index cannot fill with idx -1 and the
\* largest float as distance; any number above every real distance
NoHitDistance == 1000

\* if filter_chapter: None and 0 are both falsy
Truthy(filter_chapter) == filter_chapter # None /\ filter_chapter[1] # 0

\* IndexFlatL2: the squared L2 distance
RECURSIVE SquaredDistance(_, _)
SquaredDistance(a, b) ==
  IF a = <<>> THEN 0
  ELSE (Head(a) - Head(b)) * (Head(a) - Head(b))
         + SquaredDistance(Tail(a), Tail(b))

\* how many vectors come before vector n, nearest first; equal distances in
\* the order of the index
RankOf(vectors, q, n) ==
  Cardinality({m \in DOMAIN vectors :
                 \/ SquaredDistance(vectors[m], q) < SquaredDistance(vectors[n], q)
                 \/ /\ SquaredDistance(vectors[m], q) = SquaredDistance(vectors[n], q)
                    /\ m < n})

\* self.index.search(query_array, search_k): the row of (distance, idx)
IndexSearch(vectors, q, search_k) ==
  [p \in 1..search_k |->
     IF p <= Len(vectors)
     THEN LET n == CHOOSE n \in DOMAIN vectors : RankOf(vectors, q, n) = p - 1
          IN [dist |-> SquaredDistance(vectors[n], q), idx |-> n - 1]
     ELSE [dist |-> NoHitDistance, idx |-> 0 - 1]]

\* a variant of the filter that lets every chapter through
MatchesFilterAlways(meta, filter_chapter) == TRUE

\* not (filter_chapter and meta.get('chapter_id') != filter_chapter)
MatchesFilter(meta, filter_chapter) ==
  ~(Truthy(filter_chapter) /\ meta.chapter_id # filter_chapter[1])

\* search_k = k * 3 if filter_chapter else k
SearchK(k, filter_chapter) == IF Truthy(filter_chapter) THEN k * 3 ELSE k

\* the loop over the row: an idx beyond the metadata is skipped, a negative
\* idx counts from the end of the list (IndexError on an empty list), the
\* loop breaks at k results
RECURSIVE SearchFrom(_, _, _, _, _, _)
SearchFrom(metadata, row, p, k, filter_chapter, results) ==
  IF p > Len(row) THEN [raised |-> FALSE, hits |-> results]
  ELSE LET idx == row[p].idx
       IN IF idx >= Len(metadata)
          THEN SearchFrom(metadata, row, p + 1, k, filter_chapter, results)
          ELSE IF idx < 0 /\ 0 - idx > Len(metadata)
               THEN [raised |-> TRUE, hits |-> <<>>]
               ELSE LET meta == IF idx >= 0 THEN metadata[idx + 1]
                                ELSE metadata[Len(metadata) + idx + 1]
                        more == Append(results,
                                       [metadata |-> meta,
                                        score |-> row[p].dist,
                                        index |-> idx])
                    IN IF ~MatchesFilter(meta, filter_chapter)
                       THEN SearchFrom(metadata, row, p + 1, k,
                                       filter_chapter, results)
                       ELSE IF Len(more) >= k
                            THEN [raised |-> FALSE, hits |-> more]
                            ELSE SearchFrom(metadata, row, p + 1, k,
                                            filter_chapter, more)

\* search(query_embedding, k, filter_chapter)
VectorSearch(store, query_embedding, k, filter_chapter) ==
  SearchFrom(store.metadata,
             IndexSearch(store.vectors, query_embedding,
                         SearchK(k, filter_chapter)),
             1, k, filter_chapter, <<>>)

\* a variant of search that takes the last metadata entry off the list
StoreAfterSearchDropsLast(store) ==
  [store EXCEPT !.metadata = SubSeq(@, 1, Len(@) - 1)]

\* search assigns neither self.index nor self.metadata
StoreAfterSearch(store) == store

\* one call of search
Search ==
  /\ searchIn # None
  /\ Len(searchOut) < MaxSearches
  /\ searchOut' = Append(searchOut,
                         VectorSearch(vstore, searchIn[1].query_embedding,
                                      searchIn[1].k, searchIn[1].filter_chapter))
  /\ vstore' = StoreAfterSearch(vstore)
  /\ UNCHANGED <<cfgVars, faultsLeft, now, storeVars, cacheVars, st, schedVars,
                 decideVars, searchIn, qualityRuns, assigned, selectVars,
                 uniqueOut, vfiles>>

(***************************************************************************)
(* storage/vector_store.py: the store's other methods, and the deletion    *)
(* cascade_delete_chapter makes in the persisted pair.  The field origin   *)
(* of a store is not in the code: it keeps, for every vector of the index, *)
(* the metadata that was added together with it.  history.calls is the     *)
(* list of the calls of add_embeddings and load with their outcome.        *)
(***************************************************************************)
\* the calls of add_embeddings: one or two vectors with the chunks of a
\* chapter, a vector of another dimension, nothing at all
AddCalls ==
  {[embeddings |-> <<<<0>>>>,
    metadata_list |-> <<[chapter_id |-> 1, chunk_index |-> 0]>>],
   [embeddings |-> <<<<2>>>>,
    metadata_list |-> <<[chapter_id |-> 2, chunk_index |-> 0]>>],
   [embeddings |-> <<<<2>>, <<0>>>>,
    metadata_list |-> <<[chapter_id |-> 1, chunk_index |-> 0],
                        [chapter_id |-> 1, chunk_index |-> 1]>>],
   [embeddings |-> <<<<0>>, <<2>>>>,
    metadata_list |-> <<[chapter_id |-> 2, chunk_index |-> 0],
                        [chapter_id |-> 2, chunk_index |-> 1]>>],
   [embeddings |-> <<<<0, 2>>>>,
    metadata_list |-> <<[chapter_id |-> 1, chunk_index |-> 0]>>],
   [embeddings |-> <<>>, metadata_list |-> <<>>]}

\* a variant of add_embeddings without the test of the dimension
AddEmbeddingsUnchecked ==
  /\ Len(history.calls) < MaxStoreCalls
  /\ \E call \in AddCalls :
       /\ vstore' = [vstore EXCEPT
                       !.vectors = @ \o call.embeddings,
                       !.metadata = @ \o call.metadata_list,
                       !.origin = @ \o call.metadata_list]
       /\ history' = [history EXCEPT
                        !.calls = Append(@, [op |-> "add",
                                             embeddings |-> call.embeddings,
                                             metadata_list |-> call.metadata_list,
                                             raised |-> FALSE])]
  /\ UNCHANGED <<cfgVars, faultsLeft, now, storeVars, cacheVars, st, agent,
                 page, decideVars, searchIn, searchOut, qualityRuns, assigned,
                 selectVars, uniqueOut, vfiles>>

\* add_embeddings(embeddings, metadata_list): nothing to add, or
\* ValueError when embeddings_array.shape[1] is not the store's dimension,
\* or index.add and metadata.extend (.astype('float32') leaves the small
\* whole numbers of the model as they are)
AddEmbeddings ==
  /\ Len(history.calls) < MaxStoreCalls
  /\ \E call \in AddCalls :
       LET raised == /\ call.embeddings # <<>>
                     /\ Len(call.embeddings[1]) # vstore.dimension
       IN /\ vstore' =
               IF call.embeddings = <<>> \/ raised THEN vstore
               ELSE [vstore EXCEPT
                       !.vectors = @ \o call.embeddings,
                       !.metadata = @ \o call.metadata_list,
                       !.origin = @ \o call.metadata_list]
          /\ history' = [history EXCEPT
                           !.calls = Append(@, [op |-> "add",
                                                embeddings |-> call.embeddings,
                                                metadata_list |-> call.metadata_list,
                                                raised |-> raised])]
  /\ UNCHANGED <<cfgVars, faultsLeft, now, storeVars, cacheVars, st, agent,
                 page, decideVars, searchIn, searchOut, qualityRuns, assigned,
                 selectVars, uniqueOut, vfiles>>

\* save(path): faiss.write_index and pickle.dump of the metadata
SaveStore ==
  /\ vfiles' = Some([vectors |-> vstore.vectors,
                     metadata |-> vstore.metadata,
                     origin |-> vstore.origin])
  /\ UNCHANGED <<cfgVars, faultsLeft, now, storeVars, cacheVars, st,
                 schedVars, decideVars, searchVars, qualityRuns, assigned,
                 selectVars, uniqueOut>>

\* load(path): False when a file is missing; otherwise the index and the
\* metadata are read, whatever their sizes, and True is returned
LoadStore ==
  /\ Len(history.calls) < MaxStoreCalls
  /\ vstore' = IF vfiles = None THEN vstore
               ELSE [vstore EXCEPT !.vectors = vfiles[1].vectors,
                                   !.metadata = vfiles[1].metadata,
                                   !.origin = vfiles[1].origin]
  /\ history' = [history EXCEPT
                   !.calls = Append(@, [op |-> "load",
                                        returned |-> vfiles # None])]
  /\ UNCHANGED <<cfgVars, faultsLeft, now, storeVars, cacheVars, st, agent,
                 page, decideVars, searchIn, searchOut, qualityRuns, assigned,
                 selectVars, uniqueOut, vfiles>>

\* LocalVectorStore(): an empty index of the store's dimension
NewStore ==
  /\ vstore' = [dimension |-> 1, vectors |-> <<>>, metadata |-> <<>>,
                origin |-> <<>>]
  /\ UNCHANGED <<cfgVars, faultsLeft, now, storeVars, cacheVars, st,
                 schedVars, decideVars, searchIn, searchOut, qualityRuns,
                 assigned, selectVars, uniqueOut, vfiles>>

\* cascade_delete_chapter, step 7: a store of its own is loaded, the
\* metadata of the chapter are filtered out and, if any was, the store is
\* saved with the index it was loaded with
DeleteChapterEmbeddings ==
  /\ vfiles # None
  /\ \E chapter_id \in Chapters :
       LET filtered_metadata ==
             SelectSeq(vfiles[1].metadata,
                       LAMBDA meta : meta.chapter_id # chapter_id)
       IN vfiles' =
            IF Len(vfiles[1].metadata) - Len(filtered_metadata) > 0
            THEN Some([vfiles[1] EXCEPT !.metadata = filtered_metadata])
            ELSE vfiles
  /\ UNCHANGED <<cfgVars, faultsLeft, now, storeVars, cacheVars, st,
                 schedVars, decideVars, searchVars, qualityRuns, assigned,
                 selectVars, uniqueOut>>

(***************************************************************************)
(* core/agents/nodes.py: retrieve_context, the choice of the chunks among  *)
(* the search results, taken on its own.  A search result is held as its   *)
(* metadata's chunk_index; storage is the JSON storage the node holds, with *)
(* its collections 'questions' and 'chunk_quality'.                        *)
(***************************************************************************)
\* context_config[difficulty]['chunks_to_use'], 'advanced' by default
ChunksToUse(difficulty) ==
  CASE difficulty = "intermediate" -> 3
    [] difficulty = "advanced"     -> 5
    [] difficulty = "complex"      -> 7
    [] OTHER                       -> 5

\* the chunk indices in source_chunks of the last 20 existing questions
UsedChunkIndices(existing_questions) ==
  LET from == IF Len(existing_questions) > UsageWindow
              THEN Len(existing_questions) - UsageWindow + 1 ELSE 1
  IN UNION { IF "source_chunks" \in DOMAIN existing_questions[n]
             THEN { existing_questions[n].source_chunks[m] :
                      m \in DOMAIN existing_questions[n].source_chunks }
             ELSE {} : n \in from..Len(existing_questions) }

\* random.shuffle(seq): the random source ranks the places of the list
Shuffle(seq, rank) ==
  [k \in 1..Len(seq) |->
     seq[CHOOSE i \in 1..Len(seq) :
           Cardinality({j \in 1..Len(seq) : rank[j] < rank[i]}) = k - 1]]

\* a variant of the slice that keeps one element more
TakeInclusive(seq, n) == SubSeq(seq, 1, Min(n + 1, Len(seq)))

\* seq[:n]
Take(seq, n) == SubSeq(seq, 1, Min(n, Len(seq)))

\* a variant of the selection that shuffles used and unused chunks together
SelectedResultsMixesAll(storage, chapter_id, results, chunks_to_use, rnd) ==
  Take(Shuffle(results, rnd[1]), chunks_to_use)

\* retrieve_context: selected_results; rnd holds the random choices of the
\* first and of the second shuffle
SelectedResults(storage, chapter_id, results, chunks_to_use, rnd) ==
  LET existing_questions == StorageFilter(storage.questions, chapter_id)
      used_chunk_indices == UsedChunkIndices(existing_questions)
      unused_results ==
        SelectSeq(results, LAMBDA r : r \notin used_chunk_indices)
      used_results ==
        SelectSeq(results, LAMBDA r : r \in used_chunk_indices)
  IN IF existing_questions # <<>>
     THEN IF Len(unused_results) >= chunks_to_use
          THEN Take(Shuffle(unused_results, rnd[1]), chunks_to_use)
          ELSE Take(Shuffle(unused_results, rnd[1])
                      \o Shuffle(used_results, rnd[2]), chunks_to_use)
     ELSE Take(Shuffle(results, rnd[1]), chunks_to_use)

\* the selection of retrieve_context, on the storage as it is
Select ==
  /\ selectIn # None
  /\ selectOut = None
  /\ selectOut' =
       Some(SelectedResults([questions |-> questions,
                             chunk_quality |-> chunk_quality],
                            req.chapter_id, selectIn[1].results,
                            ChunksToUse(req.difficulty), selectIn[1].rnd))
  /\ UNCHANGED <<cfgVars, faultsLeft, now, storeVars, cacheVars, st,
                 schedVars, decideVars, searchVars, qualityRuns, assigned,
                 selectIn, uniqueOut, vfiles>>

(***************************************************************************)
(* _is_question_unique taken on its own: one check after another through   *)
(* the question cache, while time passes and questions are appended.       *)
(***************************************************************************)
\* _is_question_unique(new_question, chapter_id)
CheckUnique ==
  /\ \E new_question \in UniqueCandidates, chapter_id \in Chapters :
       /\ uniqueOut' =
            Some([new_question |-> new_question,
                  chapter_id |-> chapter_id,
                  existing_questions |-> GetCachedQuestions(chapter_id),
                  result |-> IsQuestionUnique(new_question, chapter_id)])
       /\ question_cache' = CacheAfterRead(chapter_id)
       /\ cache_timestamp' = TimestampAfterRead(chapter_id)
  /\ UNCHANGED <<cfgVars, faultsLeft, now, storeVars, st, schedVars,
                 decideVars, searchVars, qualityRuns, assigned, selectVars,
                 vfiles>>

(***************************************************************************)
(* _update_chunk_quality_scores taken on its own: the chunks and the       *)
(* confidence of one finalized question after another.                     *)
(***************************************************************************)
RecordQuality ==
  /\ qualityRuns < MaxQualityRuns
  /\ \E chunks \in env.selections, answer \in env.judge :
       /\ chunk_quality' = UpdateChunkQualityScores(chunk_quality, chunks,
                                                    answer.confidence_score)
       /\ history' = [history EXCEPT
                        !.scored = Append(@,
                           [chapter |-> req.chapter_id,
                            chunks |-> chunks,
                            score |-> answer.confidence_score])]
  /\ qualityRuns' = qualityRuns + 1
  /\ UNCHANGED <<cfgVars, faultsLeft, now, questions, cacheVars, st, agent,
                 page, decideVars, searchVars, assigned, selectVars,
                 uniqueOut, vfiles>>

(***************************************************************************)
(* The 'questions' collection taken on its own: JSONStorage.append, and    *)
(* the deletion cascade_delete_chapter makes in it.                        *)
(***************************************************************************)
\* storage.append('questions', item)
AppendQuestion ==
  /\ Len(assigned) < MaxAppends
  /\ \E c \in Chapters :
       LET stored == StorageAppend(questions,
                                   [question |-> TextNerve, chapter_id |-> c])
       IN /\ questions' = stored
          /\ assigned' = Append(assigned, stored[Len(stored)].id)
  /\ UNCHANGED <<cfgVars, faultsLeft, now, chunk_quality, cacheVars, st,
                 schedVars, decideVars, searchVars, qualityRuns, selectVars,
                 uniqueOut, vfiles>>

\* cascade_delete_chapter: questions_to_keep
QuestionsToKeep(data, chapter_id) ==
  SelectSeq(data, LAMBDA q : q.chapter_id # chapter_id)

\* cascade_delete_chapter, step 3: the chapter's questions are deleted
DeleteChapterQuestions ==
  /\ \E c \in Chapters :
       /\ \E n \in DOMAIN questions : questions[n].chapter_id = c
       /\ questions' = QuestionsToKeep(questions, c)
  /\ UNCHANGED <<cfgVars, faultsLeft, now, chunk_quality, cacheVars, st,
                 schedVars, decideVars, searchVars, qualityRuns, assigned,
                 selectVars, uniqueOut, vfiles>>

NextStore == AppendQuestion \/ DeleteChapterQuestions

(***************************************************************************)
(* The decision function taken on its own.                                 *)
(***************************************************************************)
Decide ==
  /\ decideOut = "undecided"
  /\ decideOut' = ShouldRegenerate(decideIn.validation, decideIn.attempt)
  /\ UNCHANGED <<cfgVars, faultsLeft, now, storeVars, cacheVars, st, schedVars,
                 decideIn, searchVars, qualityRuns, assigned, selectVars,
                 uniqueOut, vfiles>>

(***************************************************************************)
(* Initial states.                                                         *)
(***************************************************************************)
EmptyMap == [x \in {} |-> 0]

\* what the judge may answer: a JSON object with is_valid and
\* confidence_score (any other answer raises inside the try block), with or
\* without medical_accuracy
JudgeAnswers(confidences) ==
  {[is_valid |-> v, confidence_score |-> c, medical_accuracy |-> m] :
      v \in BOOLEAN, c \in confidences, m \in BOOLEAN}

JudgeAnswersWithoutAccuracy(confidences) ==
  {[is_valid |-> v, confidence_score |-> c] :
      v \in BOOLEAN, c \in confidences}

\* a question as finalized and stored by an earlier run
StoredQuestion(id, chapter_id, text) ==
  [id |-> id, created_at |-> 0, question |-> text, options |-> OptionKeys,
   correct_answer |-> "A", chapter_id |-> chapter_id,
   difficulty |-> "advanced", source_chunks |-> <<0, 1>>,
   confidence_score |-> 80]

InitialStores ==
  {<<>>, <<StoredQuestion(1, 2, TextNerve), StoredQuestion(2, 1, TextAortaA)>>}

Requests ==
  {[chapter_id |-> 1, difficulty |-> "advanced", include_images |-> b,
    images |-> <<"image1">>] : b \in BOOLEAN}

SettingsSpace ==
  {[MAX_REGENERATION_ATTEMPTS |-> m, VALIDATION_CONFIDENCE_THRESHOLD |-> t] :
      m \in 1..MaxAttemptsSetting, t \in {VALIDATION_CONFIDENCE_THRESHOLD}}

DefaultSettings ==
  [MAX_REGENERATION_ATTEMPTS |-> MAX_REGENERATION_ATTEMPTS,
   VALIDATION_CONFIDENCE_THRESHOLD |-> VALIDATION_CONFIDENCE_THRESHOLD]

\* the JSON object the generation model was asked for: four options A to D,
\* one of them the answer, an explanation in parts
WellFormedShape ==
  [options |-> OptionKeys, correct_answer |-> "A", explanation_is_dict |-> TRUE]

\* JSON objects a generation model may return instead
AnswerShapes ==
  {WellFormedShape,
   [options |-> {"A", "B", "C"}, correct_answer |-> "A",
    explanation_is_dict |-> TRUE],
   [options |-> OptionKeys, correct_answer |-> "E",
    explanation_is_dict |-> FALSE],
   [options |-> OptionKeys, correct_answer |-> "E",
    explanation_is_dict |-> TRUE]}

FullEnv ==
  [texts |-> QuestionTexts, judge |-> JudgeAnswers({50, 80}),
   selections |-> {<<0, 1>>, <<1, 2, 0, 3>>}, shapes |-> {WellFormedShape}]

\* a judge that gives the same answer to every call, and a generation model
\* that keeps to texts
ScriptedEnv(texts, answer) ==
  [FullEnv EXCEPT !.texts = texts, !.judge = {answer}]

LowConfidenceAnswer ==
  [is_valid |-> TRUE, confidence_score |-> 50, medical_accuracy |-> TRUE]

\* the providers of a run: any behaviour, or scripted answers and no fault
HighConfidenceAnswer ==
  [is_valid |-> TRUE, confidence_score |-> 80, medical_accuracy |-> TRUE]

\* the providers of a run: any behaviour, or scripted answers and no fault,
\* or a generation model that does not keep to the JSON object asked for
ProviderScenarios ==
  {<<FullEnv, Unlimited>>}
  \cup {<<ScriptedEnv(texts, LowConfidenceAnswer), 0>> :
          texts \in {QuestionTexts, {TextNerve}}}
  \cup {<<[ScriptedEnv({TextNerve}, HighConfidenceAnswer)
             EXCEPT !.shapes = AnswerShapes], 0>>}

InitShared ==
  /\ now = 0
  /\ chunk_quality = EmptyMap
  /\ question_cache = EmptyMap
  /\ cache_timestamp = EmptyMap
  /\ st = [i \in Instances |-> NoTask("idle")]
  /\ history = [launched |-> 0, batches |-> <<>>, succeeded |-> 0,
                failed |-> 0, produced |-> {}, scored |-> <<>>,
                requests |-> 1, calls |-> <<>>]

\* the decision function is not taken on its own
InitNoDecide ==
  /\ decideIn = [validation |-> None, attempt |-> 0]
  /\ decideOut = "unused"

\* no search is made on the store on its own
InitNoSearch ==
  /\ vstore = [vectors |-> <<>>, metadata |-> <<>>]
  /\ vfiles = None
  /\ searchIn = None
  /\ searchOut = <<>>

\* _update_chunk_quality_scores is not taken on its own
InitNoQuality == qualityRuns = 0

\* the collections are not taken on their own
InitNoStore == assigned = <<>>

\* no selection is made on its own
InitNoSelect ==
  /\ selectIn = None
  /\ selectOut = None

\* no uniqueness check is made on its own
InitNoUnique == uniqueOut = None

\* the parts are not taken on their own, except the one named
InitUnitsOffExcept(unit) ==
  /\ IF unit = "decide" THEN TRUE ELSE InitNoDecide
  /\ IF unit = "search" THEN TRUE ELSE InitNoSearch
  /\ IF unit = "quality" THEN TRUE ELSE InitNoQuality
  /\ IF unit = "store" THEN TRUE ELSE InitNoStore
  /\ IF unit = "select" THEN TRUE ELSE InitNoSelect
  /\ IF unit = "unique" THEN TRUE ELSE InitNoUnique

InitUnitsOff == InitUnitsOffExcept("none")

\* one pipeline instance, under any configuration and any provider behaviour
Init ==
  /\ InitShared
  /\ InitUnitsOff
  /\ settings \in SettingsSpace
  /\ \E sc \in ProviderScenarios : env = sc[1] /\ faultsLeft = sc[2]
  /\ req \in Requests
  /\ questions \in InitialStores
  /\ agent = CallAgent(1, 1)
  /\ page = PageOff

Step(i) ==
  \/ RetrieveContext(i)
  \/ GenerateQuestion(i)
  \/ ValidateAccuracy(i)
  \/ AddCitations(i)
  \/ RecursionError(i)
  \/ ReturnResult(i)

NextAgent ==
  \/ \E i \in Instances : Step(i)
  \/ StartBatch
  \/ GatherBatch
  \/ AgentReturn
  \/ Tick

Next == NextAgent

Spec == Init /\ [][Next]_vars

\* the event loop runs every task that can take a step, and every provider
\* call ends, in an answer or in an exception
Fairness ==
  /\ WF_vars(StartBatch)
  /\ \A i \in Instances : WF_vars(Step(i))

\* one instance on a store that holds questions, its request with images
InitLive ==
  /\ InitShared
  /\ InitUnitsOff
  /\ settings \in SettingsSpace
  /\ \E sc \in ProviderScenarios : env = sc[1] /\ faultsLeft = sc[2]
  /\ req \in {r \in Requests : r.include_images}
  /\ questions \in {qs \in InitialStores : qs # <<>>}
  /\ agent = CallAgent(1, 1)
  /\ page = PageOff

SpecLive == InitLive /\ [][Next]_vars /\ Fairness

\* a scheduler run: the settings of config.py, few provider faults
SchedulerEnv ==
  [texts |-> {TextAortaA, TextNerve},
   judge |-> {[is_valid |-> TRUE, confidence_score |-> 80, medical_accuracy |-> TRUE],
              [is_valid |-> TRUE, confidence_score |-> 50, medical_accuracy |-> TRUE],
              [is_valid |-> FALSE, confidence_score |-> 50, medical_accuracy |-> TRUE]},
   selections |-> {<<1, 2, 0, 3>>}, shapes |-> {WellFormedShape}]

InitScheduler ==
  /\ InitShared
  /\ InitUnitsOff
  /\ settings = DefaultSettings
  /\ env = SchedulerEnv
  /\ req = [chapter_id |-> 1, difficulty |-> "advanced",
            include_images |-> FALSE, images |-> <<>>]
  /\ faultsLeft = MaxFaults
  /\ questions \in InitialStores

\* generate_batch_questions called with any count and max_concurrent
InitBatch ==
  \/ Init
  \/ /\ InitScheduler
     /\ \E count \in 1..MaxCount, max_concurrent \in 1..MaxConcurrent :
          agent = CallAgent(count, max_concurrent)
     /\ page = PageOff

SpecBatch == InitBatch /\ [][Next]_vars

\* the generate button pressed with any num_questions and batch_size
InitPage ==
  \/ /\ InitShared
     /\ InitUnitsOff
     /\ settings \in SettingsSpace
     /\ \E sc \in ProviderScenarios : env = sc[1] /\ faultsLeft = sc[2]
     /\ req \in Requests
     /\ questions \in InitialStores
     /\ agent = IdleAgent
     /\ page = PagePressed(1, 1)
  \/ /\ InitScheduler
     /\ agent = IdleAgent
     /\ \E num_questions \in 1..MaxCount, batch_size \in 1..MaxConcurrent :
          page = PagePressed(num_questions, batch_size)

\* the decision function on any validation result, attempt and settings
DecideInputs ==
  [validation : {None} \cup {Some(a) : a \in JudgeAnswers({0, 50, 79, 80, 100})
                                        \cup JudgeAnswersWithoutAccuracy({0, 50, 79, 80, 100})},
   attempt : 0..MaxAttemptInput]

InitDecide ==
  /\ InitShared
  /\ InitUnitsOffExcept("decide")
  /\ settings \in [MAX_REGENERATION_ATTEMPTS : 1..MaxAttemptsSetting,
                    VALIDATION_CONFIDENCE_THRESHOLD : {0, 50, 80, 100}]
  /\ env = FullEnv
  /\ req = [chapter_id |-> 1, difficulty |-> "advanced",
            include_images |-> FALSE, images |-> <<>>]
  /\ faultsLeft = 0
  /\ questions = <<>>
  /\ agent = IdleAgent
  /\ page = PageOff
  /\ decideIn \in DecideInputs
  /\ decideOut = "undecided"

SpecDecide == InitDecide /\ [][Decide]_vars

NextPage ==
  \/ NextAgent
  \/ PageStartBatch
  \/ PageProcessResults
  \/ PageSummary

SpecPage == InitPage /\ [][NextPage]_vars

\* the pipeline is not running
InitPipelineOff ==
  /\ InitShared
  /\ settings = DefaultSettings
  /\ env = FullEnv
  /\ req = [chapter_id |-> 1, difficulty |-> "advanced",
            include_images |-> FALSE, images |-> <<>>]
  /\ faultsLeft = 0
  /\ questions = <<>>
  /\ agent = IdleAgent
  /\ page = PageOff

\* the vectors of an index, of dimension 1
VectorValues == {<<0>>, <<2>>}

\* a store of n vectors and m <= n metadata entries
StoresOf(n, m) ==
  {[vectors |-> v, metadata |-> md] :
     v \in [1..n -> VectorValues],
     md \in {[x \in 1..m |-> [chapter_id |-> c[x], chunk_index |-> x - 1]] :
               c \in [1..m -> Chapters]}}

Stores ==
  UNION {UNION {StoresOf(n, m) : m \in 0..n} : n \in 0..MaxVectors}

\* searches on any store, with any query, k and chapter filter
InitSearch ==
  /\ InitPipelineOff
  /\ InitUnitsOffExcept("search")
  /\ vstore \in Stores
  /\ vfiles = None
  /\ \E q \in {<<0>>, <<1>>}, k \in 1..MaxK,
        c \in {None} \cup {Some(ch) : ch \in Chapters} :
        searchIn = Some([query_embedding |-> q, k |-> k, filter_chapter |-> c,
                         store |-> vstore])
  /\ searchOut = <<>>

SpecSearch == InitSearch /\ [][Search]_vars

\* a new store and no persisted pair
InitVectors ==
  /\ InitPipelineOff
  /\ InitUnitsOffExcept("search")
  /\ vstore = [dimension |-> 1, vectors |-> <<>>, metadata |-> <<>>,
               origin |-> <<>>]
  /\ vfiles = None
  /\ searchIn = None
  /\ searchOut = <<>>

SpecVectors ==
  InitVectors /\ [][\/ AddEmbeddings \/ SaveStore \/ LoadStore \/ NewStore
                    \/ DeleteChapterEmbeddings]_vars

\* finalized questions of two confidences on the same chunks, or of one
\* confidence on chunks that overlap
QualityEnvs ==
  {[FullEnv EXCEPT !.selections = {<<1, 2, 0, 3>>},
                   !.judge = {LowConfidenceAnswer, HighConfidenceAnswer}],
   [FullEnv EXCEPT !.selections = {<<0>>, <<0, 1>>},
                   !.judge = {HighConfidenceAnswer}]}

InitQuality ==
  /\ InitShared
  /\ InitUnitsOffExcept("quality")
  /\ settings = DefaultSettings
  /\ env \in QualityEnvs
  /\ req = [chapter_id |-> 1, difficulty |-> "advanced",
            include_images |-> FALSE, images |-> <<>>]
  /\ faultsLeft = 0
  /\ questions = <<>>
  /\ agent = IdleAgent
  /\ page = PageOff
  /\ qualityRuns = 0

SpecQuality == InitQuality /\ [][RecordQuality]_vars

\* the page's chapter selectbox: the next request is for another chapter
NewRequest ==
  /\ history.requests < MaxRequests
  /\ \E c \in Chapters \ {req.chapter_id} :
       req' = [req EXCEPT !.chapter_id = c]
  /\ history' = [history EXCEPT !.requests = @ + 1]
  /\ UNCHANGED <<settings, env, faultsLeft, now, storeVars, cacheVars, st,
                 agent, page, unitVars>>

\* finalized questions of one chapter after another
SpecChapters == InitQuality /\ [][RecordQuality \/ NewRequest]_vars

InitStore ==
  /\ InitPipelineOff
  /\ InitUnitsOffExcept("store")
  /\ assigned = <<>>

SpecStore == InitStore /\ [][NextStore]_vars

\* the search results of a selection: the nearest first
ResultLists ==
  {SubSeq(<<2, 0, 1, 3, 4>>, 1, n) : n \in 0..MaxResults}

\* what the random source may choose for one shuffle
Ranks == {rank \in [1..MaxResults -> 1..MaxResults] :
            \A a, b \in 1..MaxResults : a # b => rank[a] # rank[b]}

RandomChoices == Ranks \X Ranks

\* the questions of the store: none, questions of the chapter asked for that
\* used some or all of the chunks, a question of another chapter
SelectHistories ==
  {<<>>,
   <<[StoredQuestion(1, 1, TextNerve) EXCEPT !.source_chunks = <<0>>]>>,
   <<StoredQuestion(1, 1, TextNerve),
     [StoredQuestion(2, 1, TextAortaA) EXCEPT !.source_chunks = <<2, 3, 4>>]>>,
   <<StoredQuestion(1, 2, TextNerve)>>,
   <<StoredQuestion(1, 2, TextNerve), StoredQuestion(2, 1, TextAortaA)>>}

\* chunk quality maps as Finalization writes them
QualityMaps ==
  {EmptyMap,
   UpdateChunkQualityScores(EmptyMap, <<0>>, 80),
   UpdateChunkQualityScores(
     UpdateChunkQualityScores(EmptyMap, <<2, 1>>, 50), <<1, 3>>, 80)}

Difficulties == {"intermediate", "advanced", "complex"}

\* one selection, on any of the stores, results and random choices above
InitSelect ==
  /\ now = 0
  /\ question_cache = EmptyMap
  /\ cache_timestamp = EmptyMap
  /\ st = [i \in Instances |-> NoTask("idle")]
  /\ history = [launched |-> 0, batches |-> <<>>, succeeded |-> 0,
                failed |-> 0, produced |-> {}, scored |-> <<>>,
                requests |-> 1, calls |-> <<>>]
  /\ InitUnitsOffExcept("select")
  /\ settings = DefaultSettings
  /\ env = FullEnv
  /\ req \in {[chapter_id |-> 1, difficulty |-> d,
                include_images |-> FALSE, images |-> <<>>] : d \in Difficulties}
  /\ faultsLeft = 0
  /\ agent = IdleAgent
  /\ page = PageOff
  /\ questions \in SelectHistories
  /\ chunk_quality \in QualityMaps
  /\ \E results \in ResultLists, rnd \in RandomChoices :
       selectIn = Some([results |-> results, rnd |-> rnd])
  /\ selectOut = None

SpecSelect == InitSelect /\ [][Select]_vars

\* the questions of the store before the first check: none; one that a
\* candidate matches exactly at a threshold; two that a candidate matches
\* in different ways, in either order; a question of another chapter
UniqueStores ==
  {<<>>,
   <<StoredQuestion(1, 1, UniqueTexts.plainC)>>,
   <<StoredQuestion(1, 1, UniqueTexts.seven)>>,
   <<StoredQuestion(1, 1, UniqueTexts.swapB),
     StoredQuestion(2, 1, TextAortaB)>>,
   <<StoredQuestion(1, 1, TextAortaB),
     StoredQuestion(2, 1, UniqueTexts.swapB)>>,
   <<StoredQuestion(1, 2, TextAortaB)>>}

InitUnique ==
  /\ InitShared
  /\ InitUnitsOffExcept("unique")
  /\ settings = DefaultSettings
  /\ env = FullEnv
  /\ req = [chapter_id |-> 1, difficulty |-> "advanced",
            include_images |-> FALSE, images |-> <<>>]
  /\ faultsLeft = 0
  /\ questions \in UniqueStores
  /\ agent = IdleAgent
  /\ page = PageOff
  /\ uniqueOut = None

SpecUnique == InitUnique /\ [][CheckUnique \/ Tick \/ AppendQuestion]_vars

(***************************************************************************)
(* Properties.                                                             *)
(***************************************************************************)
Range(seq) == {seq[n] : n \in DOMAIN seq}

\* how often a stage was invoked by an instance
Invocations(trace, stage) ==
  Cardinality({n \in DOMAIN trace : trace[n] = stage})

IsPrefix(a, b) == Len(a) <= Len(b) /\ SubSeq(b, 1, Len(a)) = a

LastOf(seq) == seq[Len(seq)]

\* C1: for one pipeline instance, whatever the generation provider and the
\* judge do, GENERATE is invoked at most max_regeneration_attempts times.
C1_GenerateAtMostMax ==
  \A i \in Instances :
    Invocations(st[i].trace, "GENERATE") <= settings.MAX_REGENERATION_ATTEMPTS

\* C2: any two distinct stored questions of one chapter have lexical
\* similarity of at most 0.55, also when they come from concurrent instances
\* of a batch or were accepted under a cached snapshot of the store.
C2_StoredQuestionsDissimilar ==
  \A a, b \in DOMAIN questions :
    (a < b /\ questions[a].chapter_id = questions[b].chapter_id)
      => ~SimilarityExceeds(questions[b].question, questions[a].question,
                            SimilarityThresholdPct)

\* the ordered rule of C3, case by case
RuleFail(in) ==
  \/ in.validation = None
  \/ /\ in.validation # None
     /\ in.attempt >= settings.MAX_REGENERATION_ATTEMPTS
     /\ ~in.validation[1].is_valid

RuleContinue(in) ==
  /\ in.validation # None
  /\ in.validation[1].is_valid
  /\ \/ in.attempt >= settings.MAX_REGENERATION_ATTEMPTS
     \/ /\ ~("medical_accuracy" \in DOMAIN in.validation[1]
               /\ in.validation[1].medical_accuracy = FALSE)
        /\ in.validation[1].confidence_score
             >= settings.VALIDATION_CONFIDENCE_THRESHOLD

RuleRegenerate(in) ==
  /\ in.validation # None
  /\ in.attempt < settings.MAX_REGENERATION_ATTEMPTS
  /\ \/ ("medical_accuracy" \in DOMAIN in.validation[1]
           /\ in.validation[1].medical_accuracy = FALSE)
     \/ ~in.validation[1].is_valid
     \/ in.validation[1].confidence_score
          < settings.VALIDATION_CONFIDENCE_THRESHOLD

\* C3: for every validation result (absent or not), attempt count and
\* configuration the controller decides by the ordered rule: no result gives
\* FAIL; attempts used up gives CONTINUE if is_valid else FAIL; then
\* medical_accuracy false gives REGENERATE; then is_valid false or a
\* confidence below the threshold gives REGENERATE; otherwise CONTINUE.
C3_DecisionFollowsRule ==
  decideOut # "undecided" =>
    /\ (decideOut = "fail") <=> RuleFail(decideIn)
    /\ (decideOut = "continue") <=> RuleContinue(decideIn)
    /\ (decideOut = "regenerate") <=> RuleRegenerate(decideIn)

\* C3 witness: attempts are used up and a valid draft of low confidence and
\* doubtful accuracy is let through
C3_Witness ==
  /\ decideOut = "continue"
  /\ decideIn.validation # None
  /\ decideIn.attempt >= settings.MAX_REGENERATION_ATTEMPTS
  /\ "medical_accuracy" \in DOMAIN decideIn.validation[1]
  /\ ~decideIn.validation[1].medical_accuracy
  /\ decideIn.validation[1].confidence_score
       < settings.VALIDATION_CONFIDENCE_THRESHOLD

\* the run of C4: the settings of config.py, every generation succeeds, every
\* draft passes the uniqueness check, and the judge answers every VALIDATE
\* with confidence 50, is_valid and medical_accuracy
SalvageRun ==
  /\ settings = DefaultSettings
  /\ faultsLeft = 0
  /\ env.judge = {LowConfidenceAnswer}
  /\ \A text \in env.texts :
       IsQuestionUniqueFrom(text, StorageFilter(questions, req.chapter_id),
                            1).is_unique

SalvageTrace ==
  <<"RETRIEVE", "GENERATE", "VALIDATE", "REGENERATE", "GENERATE", "VALIDATE",
    "CONTINUE", "FINALIZE">>

\* C4: with max_regeneration_attempts = 2 and threshold = 80, generation
\* succeeding each time and the judge answering confidence 50, is_valid,
\* medical_accuracy on every call, the instance runs GENERATE, VALIDATE,
\* REGENERATE, GENERATE, VALIDATE, CONTINUE, FINALIZE and its final question
\* is emitted for storage.
C4_SalvageAfterExhaustion ==
  SalvageRun =>
    /\ \A i \in Instances :
         /\ IsPrefix(st[i].trace, SalvageTrace)
         /\ st[i].pc \in {"ended", "returned"} =>
              /\ st[i].trace = SalvageTrace
              /\ st[i].pc = "ended" => ResultOf(st[i]) = st[i].final_question
              /\ st[i].pc = "ended" => st[i].final_question # None
              /\ st[i].pc = "returned" => st[i].result # None
    /\ agent.pc = "returned" => Len(agent.questions) = 1

C4_Witness ==
  /\ SalvageRun
  /\ questions # <<>>
  /\ agent.pc = "returned"
  /\ Len(agent.questions) = 1
  /\ agent.questions[1].confidence_score = 50

\* C5: with max_regeneration_attempts = 2 and threshold = 80, after a first
\* validation that led to REGENERATE, a judge answer with is_valid false on
\* attempt 2 ends the instance in FAIL: Finalization never runs and no
\* question is emitted.
C5_InvalidAtExhaustionFails ==
  settings = DefaultSettings =>
    /\ \A i \in Instances :
         ( /\ st[i].generation_attempt = 2
           /\ st[i].pc # "validate_accuracy"
           /\ st[i].validation_result # None
           /\ ~st[i].validation_result[1].is_valid )
         => /\ st[i].pc = "ended"
            /\ LastOf(st[i].trace) = "FAIL"
            /\ Invocations(st[i].trace, "REGENERATE") >= 1
            /\ Invocations(st[i].trace, "FINALIZE") = 0
            /\ st[i].final_question = None
            /\ ResultOf(st[i]) = None
    /\ \A i \in Instances :
         (st[i].pc = "returned" /\ LastOf(st[i].trace) = "FAIL")
         => /\ st[i].result = None
            /\ Invocations(st[i].trace, "FINALIZE") = 0
    /\ (agent.pc = "returned" /\ history.succeeded = 0) => agent.questions = <<>>

C5_Witness ==
  /\ settings = DefaultSettings
  /\ \E i \in Instances :
       /\ st[i].pc = "ended"
       /\ st[i].generation_attempt = 2
       /\ st[i].error = None
       /\ st[i].uniqueness_check[1].is_unique
       /\ ~st[i].validation_result[1].is_valid
       /\ st[i].trace = <<"RETRIEVE", "GENERATE", "VALIDATE", "REGENERATE",
                          "GENERATE", "VALIDATE", "FAIL">>

\* C6: in every reachable state of a pipeline instance attempt_count
\* (generation_attempt) is at most max_regeneration_attempts.
C6_AttemptCountBounded ==
  \A i \in Instances :
    st[i].generation_attempt <= settings.MAX_REGENERATION_ATTEMPTS

C6_Witness ==
  \E i \in Instances :
    /\ settings.MAX_REGENERATION_ATTEMPTS = MaxAttemptsSetting
    /\ st[i].generation_attempt = settings.MAX_REGENERATION_ATTEMPTS
    /\ st[i].error # None

\* the batch sizes of a request for n questions in batches of b
RECURSIVE ExpectedBatches(_, _)
ExpectedBatches(n, b) ==
  IF n <= 0 THEN <<>> ELSE <<Min(b, n)>> \o ExpectedBatches(n - b, b)

\* C7: a request for count questions with max_concurrent per batch runs
\* ceil(count / max_concurrent) batches, each of size min(max_concurrent,
\* count minus the instances already launched), so that exactly count
\* instances are launched.
C7_BatchesAsSpecified ==
  page.pc = "done" =>
    /\ Len(history.batches)
         = (page.num_questions + page.batch_size - 1) \div page.batch_size
    /\ history.batches = ExpectedBatches(page.num_questions, page.batch_size)
    /\ history.launched = page.num_questions

\* C8: when a request for N questions completes, the reported generated
\* count plus the reported failed count is N, whichever instances failed.
C8_ReportedCountsAddUp ==
  page.pc = "done" =>
    page.generated_count + page.failed_count = page.num_questions

\* C9: a pipeline instance that fails or raises does not make the scheduler
\* raise: its siblings still run to their own end, the later batches are
\* still run, and every question a successful instance produced is in the
\* returned list.
C9_FailuresIsolated ==
  /\ \A i \in Instances :
       st[i].pc = "collected" => i <= history.succeeded + history.failed
  /\ agent.pc \in {"loop", "returned"} =>
       /\ history.succeeded + history.failed = history.launched
       /\ Len(agent.questions) = history.succeeded
       /\ history.produced \subseteq Range(agent.questions)
  /\ agent.pc = "returned" =>
       /\ history.launched = agent.count
       /\ history.batches = ExpectedBatches(agent.count, agent.max_concurrent)
       /\ \A i \in 1..agent.count : st[i].pc = "collected"

\* C9 witness: a run of two batches has returned, the first batch with a
\* failed instance beside a successful one, the second with a successful one
C9_Witness ==
  /\ agent.pc = "returned"
  /\ agent.count = 3
  /\ agent.max_concurrent = 2
  /\ history.failed = 1
  /\ Len(agent.questions) = 2
  /\ agent.questions[2].question # agent.questions[1].question

\* C10: at most max_concurrent instances are in flight at any moment, and
\* no instance of a batch starts before every instance of the batch before
\* it has reached its end, in success or in failure.
C10_BoundedAndAwaited ==
  /\ Cardinality({i \in Instances : InFlight(i)}) <= agent.max_concurrent
  /\ \A i, j \in Instances :
       (st[i].batch >= 1 /\ st[j].batch > st[i].batch /\ st[j].pc # "idle")
         => Terminal(i)

\* C10 witness: the one instance of a second batch is in flight after both
\* instances of the first batch ended, one of them in failure
C10_Witness ==
  /\ agent.max_concurrent = 2
  /\ history.failed = 1
  /\ \E i, j, k \in Instances :
       /\ i # j
       /\ st[i].batch = 1 /\ st[j].batch = 1
       /\ Terminal(i) /\ Terminal(j)
       /\ st[k].batch = 2 /\ st[k].pc = "validate_accuracy"

\* C11: whatever the index holds, for every k >= 1 and every chapter filter
\* c that is supplied, search returns at most k hits, every hit is of
\* chapter c, and the hits come in non-decreasing distance.
C11_SearchFiltersAndOrders ==
  \A n \in DOMAIN searchOut :
    LET hits == searchOut[n].hits
        in   == searchIn[1]
    IN /\ Len(hits) <= in.k
       /\ in.filter_chapter # None =>
            \A h \in DOMAIN hits :
              hits[h].metadata.chapter_id = in.filter_chapter[1]
       /\ \A g, h \in DOMAIN hits : g < h => hits[g].score <= hits[h].score

\* C11 witness: a filtered search returned k = 2 hits at different distances
\* and passed over an entry of another chapter that is nearer than the last
C11_Witness ==
  /\ searchOut # <<>>
  /\ searchIn[1].filter_chapter = Some(1)
  /\ searchIn[1].k = 2
  /\ Len(searchOut[1].hits) = 2
  /\ searchOut[1].hits[1].score < searchOut[1].hits[2].score
  /\ \E m \in DOMAIN vstore.metadata :
       /\ vstore.metadata[m].chapter_id = 2
       /\ SquaredDistance(vstore.vectors[m], searchIn[1].query_embedding)
            < searchOut[1].hits[2].score

C12_QuestionsWellFormed ==
  /\ \A i \in Instances :
       st[i].final_question # None =>
         /\ st[i].final_question[1].options = OptionKeys
         /\ st[i].final_question[1].correct_answer \in OptionKeys
  /\ \A n \in DOMAIN questions :
       /\ questions[n].options = OptionKeys
       /\ questions[n].correct_answer \in OptionKeys

\* C13: after any sequence of Finalization runs every quality record has at
\* most 10 scores and its average is the mean of exactly the scores it
\* retains.
C13_QualityRecordsBounded ==
  \A c \in DOMAIN chunk_quality :
    /\ Len(chunk_quality[c].scores) <= QualityWindow
    /\ Len(chunk_quality[c].scores) >= 1
    /\ chunk_quality[c].avg[1] = SumSeq(chunk_quality[c].scores)
    /\ chunk_quality[c].avg[2] = Len(chunk_quality[c].scores)

\* C13 witness: more scores were recorded for a chunk than a record retains,
\* and the record retains scores of both values
C13_Witness ==
  /\ qualityRuns > QualityWindow
  /\ 0 \in DOMAIN chunk_quality
  /\ Len(chunk_quality[0].scores) = QualityWindow
  /\ chunk_quality[0].scores[1] = 50
  /\ chunk_quality[0].scores[QualityWindow] = 80

\* C16: however appends and deletions on one collection interleave, append
\* gives an id that no item of the collection has and that is greater than
\* every id it gave before; an id is not used again after a deletion.
C16_IdsUniqueAndIncreasing ==
  /\ \A a, b \in DOMAIN questions : a # b => questions[a].id # questions[b].id
  /\ \A a, b \in DOMAIN assigned : a < b => assigned[a] < assigned[b]

\* C14: a pipeline instance that ends in FAIL emits no question and leaves
\* the question store and the chunk quality map as they were.
C14_FailLeavesNoTrace ==
  \A i \in Instances :
    Invocations(st[i].trace, "FAIL") >= 1 =>
      /\ LastOf(st[i].trace) = "FAIL"
      /\ st[i].pc \in {"ended", "returned"}
      /\ st[i].final_question = None
      /\ st[i].pc = "ended" => ResultOf(st[i]) = None
      /\ st[i].result = None
      /\ chunk_quality = EmptyMap
      /\ questions \in InitialStores
      /\ agent.questions = <<>>

\* C14 witness: an instance with a draft of its second attempt has ended in
\* FAIL, over a store that holds questions
C14_Witness ==
  \E i \in Instances :
    /\ st[i].pc = "ended"
    /\ LastOf(st[i].trace) = "FAIL"
    /\ st[i].question_draft # None
    /\ st[i].generation_attempt >= 2
    /\ questions # <<>>

\* C15: an instance in which an embedding, generation or image-analysis call
\* failed, on the first attempt or on a later one, produces no question: its
\* result is the failure value.
C15_ProviderFailureGivesNoQuestion ==
  \A i \in Instances :
    st[i].faulted =>
      /\ st[i].pc = "ended" => ResultOf(st[i]) = None
      /\ st[i].pc = "raised" => ResultOf(st[i]) = None
      /\ st[i].pc = "returned" => st[i].result = None
      /\ agent.questions = <<>>

\* C15 witness: the generation call failed on a regeneration attempt, a
\* later attempt was finalized, and the instance returned the failure value
C15_Witness ==
  \E i \in Instances :
    /\ st[i].pc = "returned"
    /\ st[i].faulted
    /\ st[i].result = None
    /\ Invocations(st[i].trace, "REGENERATE") >= 1
    /\ LastOf(st[i].trace) = "FINALIZE"

\* the scores the finalized questions gave chunk c, oldest first
RECURSIVE ScoresGiven(_, _, _)
ScoresGiven(scored, n, c) ==
  IF n > Len(scored) THEN <<>>
  ELSE (IF \E k \in 1..Min(Len(scored[n].chunks), QualityChunks) :
             scored[n].chunks[k] = c
        THEN <<scored[n].score>> ELSE <<>>)
         \o ScoresGiven(scored, n + 1, c)

\* a stored question without what append added to it
WithoutStoreFields(q) == [k \in DOMAIN q \ {"id", "created_at"} |-> q[k]]

\* C17: however the concurrent instances of a batch interleave, no write to
\* the chunk quality map or the question store is lost: the confidence of
\* every finalized instance is in the record of each of its first 3 chunks,
\* and when the request is done every emitted question is in the store.
C17_NoLostWrites ==
  /\ \A c \in 0..3 :
       IF c \in DOMAIN chunk_quality
       THEN chunk_quality[c].scores = ScoresGiven(history.scored, 1, c)
       ELSE ScoresGiven(history.scored, 1, c) = <<>>
  /\ page.pc = "done" =>
       /\ \E s0 \in InitialStores :
            /\ IsPrefix(s0, questions)
            /\ Len(questions) = Len(s0) + history.succeeded
            /\ \A n \in DOMAIN questions :
                 n > Len(s0) =>
                   WithoutStoreFields(questions[n]) \in history.produced
       /\ \A q \in history.produced :
            \E n \in DOMAIN questions : WithoutStoreFields(questions[n]) = q

\* C17 witness: two instances of one batch have both been finalized before
\* either returned, and the record of a chunk they share has both scores
C17_Witness ==
  \E i, j \in Instances :
    /\ i # j
    /\ st[i].batch = st[j].batch
    /\ st[i].pc = "ended" /\ st[j].pc = "ended"
    /\ st[i].final_question # None /\ st[j].final_question # None
    /\ 1 \in DOMAIN chunk_quality
    /\ Len(chunk_quality[1].scores) = 2
    /\ chunk_quality[1].scores[1] # chunk_quality[1].scores[2]

\* the instance has left the graph: through END, or by an exception
Finished(i) == st[i].pc \in {"ended", "raised", "returned", "collected"}

\* C18: RETRIEVE runs once per instance, before the first GENERATE; a
\* REGENERATE re-enters GENERATE only; the retrieved chunks and images stay
\* as RETRIEVE left them until the instance ends.
C18_RetrieveOnce ==
  /\ [](\A i \in Instances :
          /\ Invocations(st[i].trace, "RETRIEVE") <= 1
          /\ st[i].trace # <<>> => st[i].trace[1] = "RETRIEVE"
          /\ (st[i].trace # <<>> /\ LastOf(st[i].trace) = "REGENERATE")
               => st[i].pc = "generate_question"
          /\ \A n \in DOMAIN st[i].trace :
               (st[i].trace[n] = "REGENERATE" /\ n < Len(st[i].trace))
                 => st[i].trace[n + 1] \in {"GENERATE", "RECURSION_ERROR"})
  /\ [][\A i \in Instances :
          ( /\ st[i].pc \in NodePcs \ {"retrieve_context"}
            /\ st'[i].pc \in NodePcs \cup {"ended"} )
          => /\ st'[i].retrieved_chunks = st[i].retrieved_chunks
             /\ st'[i].retrieved_images = st[i].retrieved_images]_vars

\* C18 witness: an instance with chunks and an image has regenerated and
\* ended
C18_Witness ==
  \E i \in Instances :
    /\ st[i].pc = "ended"
    /\ Invocations(st[i].trace, "REGENERATE") >= 1
    /\ Invocations(st[i].trace, "GENERATE") >= 2
    /\ Invocations(st[i].trace, "RETRIEVE") = 1
    /\ st[i].retrieved_chunks = <<1, 2, 0, 3>>
    /\ st[i].retrieved_images # <<>>

C21_ErrorMeansFail ==
  \A i \in Instances :
    st[i].error # None =>
      /\ st[i].pc \in {"validate_accuracy", "ended"}
      /\ st[i].pc = "ended" => LastOf(st[i].trace) = "FAIL"
      /\ st[i].final_question = None

\* C22: a GENERATE invocation that fails, on the first attempt or on a
\* later one, leaves the stage without an exception, with error set and
\* with no question_draft on the state.
C22_FailedGenerateLeavesNoDraft ==
  [][\A i \in Instances :
       ( /\ st[i].pc = "generate_question"
         /\ st'[i].pc \in {"validate_accuracy", "raised"}
         /\ LastOf(st'[i].trace) = "GENERATE"
         /\ st'[i].generation_attempt # st[i].generation_attempt + 1 )
       => /\ st'[i].pc = "validate_accuracy"
          /\ st'[i].error # None
          /\ st'[i].question_draft = None]_vars

\* C23: while the draft on the state is one the uniqueness check rejects,
\* VALIDATE gives the short-circuit result without the judge, the decision
\* is REGENERATE below max_regeneration_attempts and FAIL from there on,
\* never CONTINUE, and the draft is not finalized.
C23_NotUniqueNeverFinalized ==
  \A i \in Instances :
    LET s == st[i]
        check == IsQuestionUnique(s.question_draft[1].question, req.chapter_id)
    IN (s.pc \in NodePcs \cup {"ended"} /\ s.question_draft # None
          /\ ~check.is_unique)
       => /\ s.pc # "add_citations"
          /\ s.final_question = None
          /\ LastOf(s.trace) \in {"REGENERATE", "FAIL", "CONTINUE"}
               => /\ s.validation_result = Some(ShortCircuitResult(check.reason))
                  /\ LastOf(s.trace) =
                       IF s.generation_attempt < settings.MAX_REGENERATION_ATTEMPTS
                       THEN "REGENERATE" ELSE "FAIL"

\* C24: a judge call that fails does not raise out of VALIDATE; it leaves
\* the pessimistic result, on which the decision is REGENERATE below
\* max_regeneration_attempts and FAIL from there on, never CONTINUE: the
\* draft is not finalized and the run does not return it.
C24_JudgeFailureNeverAccepted ==
  /\ [](\A i \in Instances :
          st[i].validation_result = Some(PessimisticResult)
          => /\ st[i].pc # "add_citations"
             /\ st[i].final_question = None
             /\ st[i].pc = "ended" => ResultOf(st[i]) = None
             /\ LastOf(st[i].trace) \in {"REGENERATE", "FAIL", "CONTINUE"}
                  => LastOf(st[i].trace) =
                       IF st[i].generation_attempt
                            < settings.MAX_REGENERATION_ATTEMPTS
                       THEN "REGENERATE" ELSE "FAIL")
  /\ [][\A i \in Instances :
          ( /\ MayStep(st[i], "validate_accuracy")
            /\ st[i].uniqueness_check # None
            /\ st[i].uniqueness_check[1].is_unique
            /\ st[i].question_draft # None
            /\ st'[i] # st[i] )
          => /\ st'[i].pc # "raised"
             /\ st'[i].validation_result
                  \in {Some(a) : a \in env.judge \cup {PessimisticResult}}]_vars

\* C24 witness: the judge call failed with the attempts used up, and the
\* run ended in FAIL
C24_Witness ==
  \E i \in Instances :
    /\ st[i].pc = "ended"
    /\ st[i].validation_result = Some(PessimisticResult)
    /\ st[i].generation_attempt >= settings.MAX_REGENERATION_ATTEMPTS
    /\ LastOf(st[i].trace) = "FAIL"
    /\ Invocations(st[i].trace, "REGENERATE") >= 1

\* C25: when the decision is CONTINUE and Finalization has run, writing the
\* confidence score into the chunk quality map, the finished question is
\* what the instance returns to its caller.
C25_FinalizedIsReturned ==
  \A i \in Instances :
    Invocations(st[i].trace, "FINALIZE") >= 1 =>
      /\ st[i].pc = "ended" =>
           /\ st[i].final_question # None
           /\ ResultOf(st[i]) = st[i].final_question
      /\ st[i].pc = "returned" => st[i].result # None

\* the instance is at Finalization or has been through it
Finalizing(i) ==
  \/ st[i].pc = "add_citations"
  \/ st[i].pc = "ended" /\ st[i].final_question # None

\* C26: every question that reaches Finalization has a current validation
\* result with is_valid true, below the attempt limit and at it.
C26_FinalizedIsValid ==
  \A i \in Instances :
    Finalizing(i) =>
      /\ st[i].validation_result # None
      /\ st[i].validation_result[1].is_valid

\* C26 witness: a question is finalized with the attempts used up, after an
\* answer of the judge that was not valid sent an earlier draft back
C26_Witness ==
  \E i \in Instances :
    /\ st[i].pc = "ended"
    /\ st[i].final_question # None
    /\ st[i].generation_attempt >= settings.MAX_REGENERATION_ATTEMPTS
    /\ st[i].generation_attempt >= 2
    /\ st[i].validation_result[1].is_valid
    /\ st[i].validation_result[1].confidence_score
         < settings.VALIDATION_CONFIDENCE_THRESHOLD

\* C27: every question that reaches Finalization has a current validation
\* result with medical_accuracy true, below the attempt limit and at it.
C27_FinalizedIsAccurate ==
  \A i \in Instances :
    Finalizing(i) =>
      /\ st[i].validation_result # None
      /\ MedicalAccuracyOf(st[i].validation_result[1])

\* C27, as the controller has it: a question that reaches Finalization below
\* the attempt limit has medical_accuracy true; with the attempts used up
\* is_valid alone decides, and medical_accuracy may be false.
C27_FinalizedIsAccurateBelowLimit ==
  \A i \in Instances :
    Finalizing(i) =>
      /\ st[i].validation_result # None
      /\ st[i].validation_result[1].is_valid
      /\ \/ MedicalAccuracyOf(st[i].validation_result[1])
         \/ st[i].generation_attempt >= settings.MAX_REGENERATION_ATTEMPTS

\* C27 witness: with the attempts used up a question the judge called valid
\* and not accurate is finalized
C27_Witness ==
  \E i \in Instances :
    /\ st[i].pc = "ended"
    /\ st[i].final_question # None
    /\ st[i].error = None
    /\ st[i].generation_attempt >= settings.MAX_REGENERATION_ATTEMPTS
    /\ st[i].validation_result[1].is_valid
    /\ ~MedicalAccuracyOf(st[i].validation_result[1])

\* C28: the source_chunks of a finalized question are the chunk_index values
\* of all the chunks the instance's RETRIEVE selected, in retrieval order;
\* so they are among the chunks retrieved for the instance.
C28_SourceChunksAreRetrieved ==
  \A i \in Instances :
    /\ (st[i].pc = "ended" /\ st[i].final_question # None)
         => /\ st[i].final_question[1].source_chunks = st[i].retrieved_chunks
            /\ Range(st[i].final_question[1].source_chunks)
                 \subseteq Range(st[i].retrieved_chunks)
            /\ st[i].retrieved_chunks \in env.selections
    /\ (st[i].pc = "returned" /\ st[i].result # None)
         => st[i].result[1].source_chunks \in env.selections

\* C28 witness: a question is finalized on four retrieved chunks, one more
\* than the quality records written
C28_Witness ==
  \E i \in Instances :
    /\ st[i].pc = "ended"
    /\ st[i].error = None
    /\ st[i].final_question # None
    /\ st[i].retrieved_chunks = <<1, 2, 0, 3>>
    /\ st[i].final_question[1].source_chunks = <<1, 2, 0, 3>>
    /\ DOMAIN chunk_quality = {0, 1, 2}

\* the n most recent entries of a list, in the order they had
MostRecent(seq, n) ==
  LET kept == Min(Len(seq), n)
  IN [k \in 1..kept |-> seq[Len(seq) - kept + k]]

\* C29: one Finalization with confidence score s appends s as the newest
\* entry to the record of each of the first 3 retrieved chunks and keeps the
\* 10 most recent entries in their order; the record of every other chunk,
\* the 4th and later retrieved chunks among them, stays as it was.
C29_FinalizationTouchesFirstThree ==
  [][Len(history'.scored) = Len(history.scored) + 1 =>
       LET e     == LastOf(history'.scored)
           first == {e.chunks[n] :
                       n \in 1..Min(Len(e.chunks), QualityChunks)}
       IN /\ DOMAIN chunk_quality' = DOMAIN chunk_quality \cup first
          /\ \A c \in DOMAIN chunk_quality' :
               IF c \in first
               THEN chunk_quality'[c].scores =
                      MostRecent(Append(IF c \in DOMAIN chunk_quality
                                        THEN chunk_quality[c].scores
                                        ELSE <<>>, e.score),
                                 QualityWindow)
               ELSE chunk_quality'[c] = chunk_quality[c]]_vars

\* C29 witness: a score was recorded for a question with four chunks when
\* the records of its first three were full; the oldest score was dropped
\* and the fourth chunk has no record
C29_Witness ==
  /\ Len(history.scored) > QualityWindow
  /\ LastOf(history.scored).chunks = <<1, 2, 0, 3>>
  /\ 3 \notin DOMAIN chunk_quality
  /\ 0 \in DOMAIN chunk_quality
  /\ Len(chunk_quality[0].scores) = QualityWindow
  /\ chunk_quality[0].scores[QualityWindow] = LastOf(history.scored).score
  /\ chunk_quality[0].scores[1] # history.scored[1].score

\* the set of chunks selectOut holds, had the quality map been quality_data
SelectedUnder(quality_data) ==
  Range(SelectedResults([questions |-> questions,
                         chunk_quality |-> quality_data],
                        req.chapter_id, selectIn[1].results,
                        ChunksToUse(req.difficulty), selectIn[1].rnd))

\* the selection is the same whatever the chunk quality map holds
SelectionIgnoresQuality ==
  selectOut # None =>
    \A quality_data \in QualityMaps :
      SelectedUnder(quality_data) = Range(selectOut[1])

\* C30: the choice of the chunks depends on the chunk quality map that
\* Finalization writes: with the same search results, question history and
\* random choices, two quality maps give different sets of chunks.  Stated
\* for every selection that has more results than it may use, part of them
\* used before: the place where the map is to decide.
C30_SelectionDependsOnQuality ==
  ( /\ selectOut # None
    /\ Len(selectIn[1].results) > ChunksToUse(req.difficulty)
    /\ \E n \in DOMAIN selectIn[1].results :
         selectIn[1].results[n]
           \in UsedChunkIndices(StorageFilter(questions, req.chapter_id)) )
  => \E q1 \in QualityMaps, q2 \in QualityMaps :
       SelectedUnder(q1) # SelectedUnder(q2)


\* the scores that the questions of one chapter gave to chunk c of that
\* chapter, oldest first
RECURSIVE ScoresEarned(_, _, _, _)
ScoresEarned(scored, n, chapter, c) ==
  IF n > Len(scored) THEN <<>>
  ELSE (IF /\ scored[n].chapter = chapter
           /\ \E k \in 1..Min(Len(scored[n].chunks), QualityChunks) :
                scored[n].chunks[k] = c
        THEN <<scored[n].score>> ELSE <<>>)
         \o ScoresEarned(scored, n + 1, chapter, c)

\* C31: after any sequence of Finalization runs over several chapters, the
\* scores in the record of chunk c of a chapter are the most recent scores
\* of that chapter's questions whose first retrieved chunks included c: a
\* score earned by chunk c of one chapter is never recorded against chunk c
\* of another chapter.
C31_ScoresOfOwnChapterOnly ==
  \A chapter \in Chapters, c \in DOMAIN chunk_quality :
    ScoresEarned(history.scored, 1, chapter, c) # <<>> =>
      chunk_quality[c].scores =
        MostRecent(ScoresEarned(history.scored, 1, chapter, c), QualityWindow)


\* the questions of the requested chapter, as the selection reads them
ExistingQuestions == StorageFilter(questions, req.chapter_id)

\* the search results of the selection that are not in source_chunks of
\* the chapter's last 20 questions
UnusedResults ==
  Range(selectIn[1].results) \ UsedChunkIndices(ExistingQuestions)

C33_SelectionSize ==
  selectOut # None =>
    LET selected == selectOut[1]
        results  == selectIn[1].results
    IN /\ Len(selected) = Min(ChunksToUse(req.difficulty), Len(results))
       /\ \A a, b \in DOMAIN selected : a # b => selected[a] # selected[b]
       /\ Range(selected) \subseteq Range(results)
       /\ ExistingQuestions = <<>> =>
            selected = SubSeq(Shuffle(results, selectIn[1].rnd[1]), 1,
                              Len(selected))

\* C33 witness: the first selection of chapter 1 takes three of four
\* results, among them chunks that a question of chapter 2 used, and leaves
\* out a chunk that no question used
C33_Witness ==
  /\ selectOut # None
  /\ questions # <<>>
  /\ ExistingQuestions = <<>>
  /\ Len(selectIn[1].results) = 4
  /\ Len(selectOut[1]) = 3
  /\ {0, 1} \subseteq Range(selectOut[1])


\* lexical similarity strictly greater than 0.55
TooSimilar(a, b) ==
  LET r == QuestionSimilarity(a, b)
  IN r[1] * 100 > SimilarityThresholdPct * r[2]

\* Jaccard overlap of the two texts' terms strictly greater than 0.70
OverlapTooHigh(a, b) ==
  LET n == ExtractMedicalTerms(a)
      e == ExtractMedicalTerms(b)
  IN /\ n # {}
     /\ e # {}
     /\ Cardinality(n \cap e) * 100
          > TermOverlapThresholdPct * Cardinality(n \cup e)

\* C34: the uniqueness check scans the chapter's questions in stored order
\* and rejects at the first one whose similarity to the candidate is
\* strictly greater than 0.55 or whose term overlap with it is strictly
\* greater than 0.70, the reason naming what that question violates
\* (similarity before overlap); the candidate is unique exactly when no
\* question violates either threshold.
C34_FirstViolationWins ==
  uniqueOut # None =>
    LET u    == uniqueOut[1]
        ex   == u.existing_questions
        viol == {n \in DOMAIN ex :
                   \/ TooSimilar(u.new_question, ex[n].question)
                   \/ OverlapTooHigh(u.new_question, ex[n].question)}
    IN /\ \A n \in DOMAIN ex : ex[n].chapter_id = u.chapter_id
       /\ u.result.is_unique <=> viol = {}
       /\ IF viol = {}
          THEN u.result.reason = "Question is unique"
          ELSE LET first == CHOOSE n \in viol : \A m \in viol : n <= m
               IN u.result.reason =
                    IF TooSimilar(u.new_question, ex[first].question)
                    THEN "Text similarity exceeds threshold"
                    ELSE "Medical term overlap too high"

\* C34 witness: a candidate whose term overlap with the only existing
\* question is exactly 0.70, and whose similarity to it is below 0.55, is
\* accepted as unique
C34_Witness ==
  /\ uniqueOut # None
  /\ Len(uniqueOut[1].existing_questions) = 1
  /\ LET new == uniqueOut[1].new_question
         old == uniqueOut[1].existing_questions[1].question
     IN /\ Cardinality(ExtractMedicalTerms(new) \cap ExtractMedicalTerms(old))
             = 7
        /\ Cardinality(ExtractMedicalTerms(new) \cup ExtractMedicalTerms(old))
             = 10
        /\ ~TooSimilar(new, old)
  /\ uniqueOut[1].result.is_unique


\* a step of the uniqueness check taken on its own that reads the cache
CacheRead ==
  /\ now' = now
  /\ questions' = questions
  /\ uniqueOut' # None

\* C35: a read for chapter c returns the cached snapshot only while its age
\* is below 30 seconds, and then leaves the cache as it is; at age 30
\* seconds or more, or without a snapshot, it returns chapter c's questions
\* of the store, keeps them as the snapshot and sets the entry's timestamp
\* to the time of the read; the entries of other chapters stay as they were.
C35_CacheServedBelowTtl ==
  [][CacheRead =>
       LET c == uniqueOut'[1].chapter_id
           returned == uniqueOut'[1].existing_questions
       IN /\ IF /\ c \in DOMAIN question_cache
                /\ now - cache_timestamp[c] < CacheTtlSeconds
             THEN /\ returned = question_cache[c]
                  /\ question_cache' = question_cache
                  /\ cache_timestamp' = cache_timestamp
             ELSE /\ returned = StorageFilter(questions, c)
                  /\ question_cache'[c] = returned
                  /\ cache_timestamp'[c] = now
          /\ \A d \in Chapters \ {c} :
               /\ d \in DOMAIN question_cache' <=> d \in DOMAIN question_cache
               /\ d \in DOMAIN question_cache =>
                    /\ question_cache'[d] = question_cache[d]
                    /\ cache_timestamp'[d] = cache_timestamp[d]]_vars

\* C35 witness: chapter 1 was read when 30 seconds had passed and its entry
\* holds the chapter's questions of the store at that time; the entry of
\* chapter 2, taken at time 0 and stale by now, is as it was
C35_Witness ==
  /\ now = CacheTtlSeconds
  /\ DOMAIN question_cache = {1, 2}
  /\ cache_timestamp[1] = CacheTtlSeconds
  /\ question_cache[1] = StorageFilter(questions, 1)
  /\ \E n \in DOMAIN question_cache[1] : question_cache[1][n].created_at = 0
  /\ cache_timestamp[2] = 0
  /\ question_cache[2] # StorageFilter(questions, 2)
  /\ uniqueOut # None
  /\ uniqueOut[1].chapter_id = 1


\* C36: an append for a chapter invalidates the chapter's cache entry: every
\* read for a chapter, a read within 30 seconds of the snapshot included,
\* returns the questions the store holds for the chapter at that time, the
\* appended ones among them.
C36_AppendInvalidates ==
  [][CacheRead =>
       uniqueOut'[1].existing_questions
         = StorageFilter(questions, uniqueOut'[1].chapter_id)]_vars


\* C37: add_embeddings with vectors of another dimension than the index's
\* fails with the dimension error and leaves the index and the metadata
\* list as they were; an add that succeeds appends the vectors to the index
\* and their metadata to the list, in the order given.
C37_AddChecksDimension ==
  [][(/\ Len(history'.calls) = Len(history.calls) + 1
      /\ LastOf(history'.calls).op = "add") =>
       LET call == LastOf(history'.calls)
       IN IF \E n \in DOMAIN call.embeddings :
               Len(call.embeddings[n]) # vstore.dimension
          THEN /\ call.raised
               /\ vstore' = vstore
          ELSE /\ ~call.raised
               /\ vstore'.vectors = vstore.vectors \o call.embeddings
               /\ vstore'.metadata = vstore.metadata \o call.metadata_list]_vars

\* C37 witness: two vectors were added with their chunks, then an add of a
\* vector of dimension 2 failed and the store holds the two vectors and
\* their metadata in the order given
C37_Witness ==
  /\ Len(history.calls) = 2
  /\ history.calls[1].op = "add"
  /\ ~history.calls[1].raised
  /\ history.calls[2].op = "add"
  /\ history.calls[2].raised
  /\ Len(history.calls[2].embeddings[1]) = 2
  /\ vstore.vectors = <<<<2>>, <<0>>>>
  /\ vstore.vectors = history.calls[1].embeddings
  /\ vstore.metadata = history.calls[1].metadata_list
  /\ vstore.metadata[2].chunk_index = 1


\* C38: loading a persisted pair whose index size differs from the length
\* of its metadata list fails: load does not return True and the store
\* does not take the mismatched pair.
C38_MismatchedPairNotLoaded ==
  [][(/\ Len(history'.calls) = Len(history.calls) + 1
      /\ LastOf(history'.calls).op = "load"
      /\ vfiles # None
      /\ Len(vfiles[1].vectors) # Len(vfiles[1].metadata)) =>
       /\ ~LastOf(history'.calls).returned
       /\ vstore' = vstore]_vars

\* C39: in every state reachable by add, save, load and chapter deletion
\* the index holds as many vectors as the metadata list has entries and
\* the entry at the place of a vector is the metadata that was added with
\* that vector, so that a search hit found at a place of the index carries
\* the metadata added with the vector found there.
C39_MetadataAligned ==
  /\ Len(vstore.vectors) = Len(vstore.metadata)
  /\ vstore.metadata = vstore.origin
  /\ \A q \in {<<0>>, <<1>>}, k \in 1..MaxK, c \in Chapters :
       LET found == VectorSearch(vstore, q, k, Some(c))
       IN ~found.raised =>
            \A h \in DOMAIN found.hits :
              found.hits[h].index >= 0 =>
                found.hits[h].metadata = vstore.origin[found.hits[h].index + 1]


\* the places of the index (counted from 0) of the count vectors nearest to
\* q, nearest first
NearestPlaces(store, q, count) ==
  [p \in 1..Min(count, Len(store.vectors)) |->
     (CHOOSE n \in DOMAIN store.vectors :
        RankOf(store.vectors, q, n) = p - 1) - 1]

\* C40: with a chapter filter, search returns exactly the first min(k, m)
\* entries of the chapter, in distance order, among the 3 * k nearest
\* vectors of the whole index, m being the number of entries of the chapter
\* among those 3 * k vectors.
C40_FilteredSearchExact ==
  \A n \in DOMAIN searchOut :
    LET in       == searchIn[1]
        store    == in.store
        c        == in.filter_chapter
        places   == NearestPlaces(store, in.query_embedding, 3 * in.k)
        matching == SelectSeq(places,
                              LAMBDA i : /\ i < Len(store.metadata)
                                         /\ store.metadata[i + 1].chapter_id
                                              = c[1])
        expected == SubSeq(matching, 1, Min(in.k, Len(matching)))
    IN c # None =>
         /\ ~searchOut[n].raised
         /\ searchOut[n].hits =
              [h \in DOMAIN expected |->
                 [metadata |-> store.metadata[expected[h] + 1],
                  score |-> SquaredDistance(store.vectors[expected[h] + 1],
                                            in.query_embedding),
                  index |-> expected[h]]]

=============================================================================
